---- MODULE Spec2Model ----
(***************************************************************************)
(* Archway WiFi analyzer: the live discovery engine (WiFiInterface,        *)
(* WiFiScanner and its scan worker, backend/src/core/wifi_scanner.py) and  *)
(* the scan lifecycle of the HTTP layer (backend/src/routes/wifi_api.py).  *)
(***************************************************************************)
EXTENDS Integers, Sequences, FiniteSets, TLC

(***************************************************************************)
(* Bounds of the model.                                                    *)
(***************************************************************************)
\* worker threads one WiFiScanner ever starts (successful start_monitor_scan calls)
MaxThreads == 2
\* frames the capture delivers to packet_handler over a behaviour
MaxFrames == 2
\* largest value of the (non-decreasing) clock read by datetime.now()
MaxClock == 1
\* channel hops one worker makes
MaxHops == 1
\* network dicts in the list handed to detect_evil_twin
MaxNets == 3
\* network dicts in the list handed to detect_rogue_ap
MaxRogueNets == 2
\* network dicts in the list handed to analyze_channel_utilization
MaxChannelNets == 5
\* networks counted on one channel of a utilization map
MaxPerChannel == 10
\* network dicts in the list handed to analyze_security_posture
MaxSecurityNets == 10
\* network dicts in the list handed to perform_comprehensive_analysis
MaxReportNets == 3
\* records in a snapshot that is analysed repeatedly
MaxRepeatNets == 2
\* channels in use in a snapshot whose channels are ranked
MaxRankedChannels == 6

(***************************************************************************)
(* Values.                                                                 *)
(***************************************************************************)
\* None of an optional string / an optional number
NoneStr == "None"
NoneInt == 0 - 1

\* hardware addresses seen on the air (addr3 of beacons, addr2 of probes)
BSSIDs == {"00:11:22:aa:aa:01", "de:ad:be:ef:00:02"}
MACs == {"00:1b:63:cc:cc:03"}
\* advertised / probed SSIDs; "" is the hidden (empty) SSID
SSIDs == {"", "x", "y"}
Signals == {0 - 40}
FrameChannels == {6}

\* wifi_scanner.py:193-194
channels_2_4ghz == <<1, 2, 3, 4, 5, 6, 7, 8, 9, 10, 11, 12, 13, 14>>
channels_5ghz == <<36, 40, 44, 48, 52, 56, 60, 64, 100, 104, 108, 112, 116, 120,
                   124, 128, 132, 136, 140, 149, 153, 157, 161, 165>>
\* the channels argument of start_monitor_scan: None or an explicit plan
ChannelArgs == {<<0 - 1>>, <<6, 11>>}
IsNonePlan(ch) == ch = <<0 - 1>>

\* the first 8 characters of a hardware address, upper-cased (mac[:8].upper())
OuiUpper(mac) ==
    CASE mac = "00:11:22:aa:aa:01" -> "00:11:22"
      [] mac = "de:ad:be:ef:00:02" -> "DE:AD:BE"
      [] mac = "00:1b:63:cc:cc:03" -> "00:1B:63"
      [] OTHER -> "??:??:??"

\* WiFiScanner.load_vendor_database
vendor_db ==
    [o \in {"00:11:22", "00:1B:63", "00:26:BB", "28:CF:E9", "00:50:56",
            "08:00:27", "00:0C:29", "00:1C:42"} |->
        CASE o = "00:11:22" -> "Cisco Systems"
          [] o \in {"00:1B:63", "00:26:BB", "28:CF:E9"} -> "Apple Inc."
          [] o \in {"00:50:56", "00:0C:29"} -> "VMware Inc."
          [] o = "08:00:27" -> "Oracle VirtualBox"
          [] OTHER -> "Parallels Inc."]

\* WiFiScanner.get_vendor
get_vendor(mac) ==
    IF mac = "" \/ mac = NoneStr THEN "Unknown"
    ELSE IF OuiUpper(mac) \in DOMAIN vendor_db THEN vendor_db[OuiUpper(mac)]
    ELSE "Unknown"

(***************************************************************************)
(* Frames handed to packet_handler by the capture.                         *)
(***************************************************************************)
\* kind: the 802.11 layer found by haslayer; "raw" has no Dot11 layer;
\* has_info = FALSE is a frame whose info field cannot be read (malformed)
Frames ==
    [kind : {"beacon"}, addr : BSSIDs \cup {NoneStr}, ssid : SSIDs,
     signal : Signals, channel : FrameChannels, has_info : {TRUE}]
    \cup
    [kind : {"probe_req"}, addr : MACs \cup {NoneStr}, ssid : {"", "x"},
     signal : Signals, channel : FrameChannels, has_info : {TRUE}]
    \cup
    [kind : {"beacon", "probe_req"}, addr : {"00:11:22:aa:aa:01"}, ssid : {""},
     signal : Signals, channel : FrameChannels, has_info : {FALSE}]
    \cup
    [kind : {"probe_resp", "auth", "deauth", "other_dot11", "raw"},
     addr : {NoneStr}, ssid : {""}, signal : Signals,
     channel : FrameChannels, has_info : {TRUE}]

NoFrame ==
    [kind |-> "none", addr |-> NoneStr, ssid |-> "", signal |-> 0 - 100,
     channel |-> 0, has_info |-> TRUE]

(***************************************************************************)
(* State.                                                                  *)
(***************************************************************************)
VARIABLES
    \* the adapter itself (operating system state)
    iface_type,        \* "managed" | "monitor": the type iw reports
    link_up,           \* the link state
    \* WiFiInterface
    monitor_mode,
    original_mode,     \* NoneStr | "managed" | "monitor" | "unknown"
    \* WiFiScanner
    scanning,
    scan_thread,       \* 0 = None, else the thread's id
    networks,          \* bssid -> access-point record
    clients,           \* mac -> client record
    packets_captured,
    scan_start_time,   \* NoneInt = None
    current_channel,
    \* the worker threads (threading.Thread objects running _monitor_scan_worker)
    worker,            \* thread id -> [pc, channels, channel_index, pkt, timestamp]
    \* the thread that calls start_monitor_scan / stop_scan
    cpc,               \* "idle" | "join" | "restore" | "ret"
    ret,               \* the call: [op, ok, running, joined, restore]
    \* environment
    clock,             \* datetime.now()
    nframes,           \* frames delivered so far
    \* history: beacon upserts applied per BSSID since the last store reset
    upserts,
    \* a thread inside WiFiScanner.get_scan_results
    rd,                \* [pc, len, nets, clts, networks_found, clients_found, failed]
    \* the HTTP layer (routes/wifi_api.py)
    scanner,           \* the global scanner: 0 = None, else the instance's id
    inst,              \* WiFiScanner instance id -> [scanning, worker, restores]
    session,           \* ScanSession id -> [scan_type, status]
    basic,             \* basic_scan_worker thread per session
    timer,             \* stop_scan_after_duration thread per session: "none",
                       \* "sleeping", then "stopped" (its stop_scan call stopped
                       \* a running scan) or "noop" (it found none running)
    apc,               \* "idle" | "ret": a request handler holding scanner_lock
    resp,              \* the response of the finished request
    \* the last call made on the WiFiInterface from outside the scanner
    icall,             \* [op, ok, cmds, target, exists, current_mode, before]
    \* a call on the AdvancedWiFiAnalyzer (core/advanced_analyzer.py)
    snapshot,          \* the argument: a list of network dicts
    analysis,          \* [op, raised, result]: the method called and its outcome
    analyzers,         \* the fields of the three analyzer objects
    \* history: what the call before the last one returned
    previous

coreVars ==
    <<iface_type, link_up, monitor_mode, original_mode, scanning, scan_thread,
      networks, clients, packets_captured, scan_start_time, current_channel,
      worker, cpc, ret, clock, nframes, upserts>>

apiVars == <<scanner, inst, session, basic, timer, apc, resp>>

anVars == <<snapshot, analysis, analyzers, previous>>

vars == <<coreVars, rd, apiVars, icall, anVars>>

Threads == 1..MaxThreads

\* hops, requested: history of the thread's set_channel calls (how many it
\* has made, the channel of the last one)
IdleWorker ==
    [pc |-> "unstarted", channels |-> <<>>, channel_index |-> 0,
     pkt |-> NoFrame, timestamp |-> 0, hops |-> 0, requested |-> 0]

\* the reader outside get_scan_results
NoRead ==
    [pc |-> "idle", len |-> 0, nets |-> <<>>, clts |-> <<>>,
     networks_found |-> 0, clients_found |-> 0, failed |-> FALSE]

\* no finished call; running: the scanner was scanning when stop_scan was
\* called; channels: the argument of an accepted start_monitor_scan
NoRet ==
    [op |-> "none", ok |-> TRUE, running |-> FALSE, joined |-> "none",
     restore |-> "none", channels |-> <<>>]

\* threading.Thread.is_alive()
is_alive(t) == worker[t].pc \notin {"unstarted", "done"}

Alive == {t \in Threads : is_alive(t)}

Started == {t \in Threads : worker[t].pc # "unstarted"}

(***************************************************************************)
(* The HTTP layer's values.                                                *)
(***************************************************************************)
\* WiFiScanner instances (one per accepted start request) the model creates
MaxScanners == 3

Instances == 1..MaxScanners

\* a WiFiScanner that start_scan has not created yet / has just constructed
NoInstance == [scanning |-> FALSE, worker |-> "none", restores |-> 0]
NoSession == [scan_type |-> "none", status |-> "none"]
NoResp == [op |-> "none", success |-> TRUE, code |-> 0, running |-> FALSE]

\* the module's globals (lines 23-24) before any request
ApiInit ==
    /\ scanner = 0
    /\ inst = [i \in Instances |-> NoInstance]
    /\ session = [i \in Instances |-> NoSession]
    /\ basic = [i \in Instances |-> "none"]
    /\ timer = [i \in Instances |-> "none"]
    /\ apc = "idle"
    /\ resp = NoResp

\* no call yet on the WiFiInterface (constructed at lines 27-29); cmds: the
\* link and type commands the call issued, target: the type it asked for,
\* before: adapter and controller as the call found them
NoCall ==
    [op |-> "none", ok |-> TRUE, cmds |-> <<>>, target |-> NoneStr,
     exists |-> TRUE, current_mode |-> "unknown",
     before |-> [iface_type |-> "managed", link_up |-> TRUE,
                 monitor_mode |-> FALSE, original_mode |-> NoneStr]]

\* WiFiInterface.__init__ and WiFiScanner.__init__; the adapter is in either mode
ScannerInit ==
    /\ iface_type \in {"managed", "monitor"}
    /\ link_up = TRUE
    /\ monitor_mode = FALSE
    /\ original_mode = NoneStr
    /\ scanning = FALSE
    /\ scan_thread = 0
    /\ networks = <<>>
    /\ clients = <<>>
    /\ packets_captured = 0
    /\ scan_start_time = NoneInt
    /\ current_channel = 1
    /\ worker = [t \in Threads |-> IdleWorker]
    /\ cpc = "idle"
    /\ ret = NoRet
    /\ clock = 0
    /\ nframes = 0
    /\ upserts = [b \in BSSIDs |-> 0]
    /\ rd = NoRead
    /\ ApiInit
    /\ icall = NoCall

\* no analyzer call has been made
NoAnalysis == [op |-> "none", raised |-> FALSE, result |-> <<>>]

\* ThreatDetector(), NetworkAnalytics() and SignalAnalyzer() as constructed
NewAnalyzers ==
    [suspicious_patterns |->
         [evil_twin |-> <<>>, deauth_attacks |-> <<>>, beacon_flooding |-> <<>>,
          karma_attacks |-> <<>>, rogue_ap |-> <<>>],
     historical_data |-> <<>>,
     signal_history |-> <<>>]

\* the module-level advanced_analyzer, before any call
AnalyzerInit ==
    /\ analysis = NoAnalysis
    /\ analyzers = NewAnalyzers
    /\ previous = NoAnalysis

Init ==
    /\ ScannerInit
    /\ snapshot = <<>>
    /\ AnalyzerInit

\* the values datetime.now() may return next: the clock never goes back
NowValues == {c \in {clock, clock + 1} : c <= MaxClock}

(***************************************************************************)
(* WiFiInterface.  Each operation is a function of the controller state,   *)
(* the adapter state and the outcome of the external tool calls it makes.  *)
(***************************************************************************)
IfaceState ==
    [iface_type |-> iface_type, link_up |-> link_up,
     monitor_mode |-> monitor_mode, original_mode |-> original_mode]

\* outcomes of the tool calls of one mode transition: which probe (iwconfig)
\* answers, and which of the commands link-down, set-type, link-up fails
ProbeOutcomes == {"ok", "fail"}
StepOutcomes == {"none", "down", "type", "up"}
ToolOutcomes == [probe1 : ProbeOutcomes, fail : StepOutcomes, probe2 : ProbeOutcomes]

\* WiFiInterface.get_interface_info: the current_mode it reports for adapter
\* type ty when the probe answers (p = "ok") or not
current_mode_of(ty, p) == IF p = "ok" THEN ty ELSE "unknown"

\* ... and its write to self.monitor_mode (line 90)
monitor_mode_after_info(mm, ty, p) == mm \/ (p = "ok" /\ ty = "monitor")

\* `iw set type <t>` is accepted for an interface type only
ValidType(t) == t \in {"managed", "monitor"}

\* a controller that never takes itself to be in monitor mode already
AlreadyMonitorNever(s) == FALSE

\* lines 108-110: the guard of enable_monitor_mode
AlreadyMonitor(s) == s.monitor_mode

\* WiFiInterface.enable_monitor_mode
enable_monitor_mode(s, o) ==
    IF AlreadyMonitor(s) THEN [ok |-> TRUE, st |-> s, cmds |-> <<>>]
    ELSE
      LET mode1 == current_mode_of(s.iface_type, o.probe1)
          mm1 == monitor_mode_after_info(s.monitor_mode, s.iface_type, o.probe1)
          s1 == [s EXCEPT !.original_mode = mode1, !.monitor_mode = mm1]
      IN  IF o.fail = "down" THEN [ok |-> FALSE, st |-> s1, cmds |-> <<"down">>]
          ELSE IF o.fail = "type"
            THEN [ok |-> FALSE, st |-> [s1 EXCEPT !.link_up = FALSE],
                  cmds |-> <<"down", "type">>]
          ELSE IF o.fail = "up"
            THEN [ok |-> FALSE,
                  st |-> [s1 EXCEPT !.link_up = FALSE, !.iface_type = "monitor"],
                  cmds |-> <<"down", "type", "up">>]
          ELSE
            LET s2 == [s1 EXCEPT !.link_up = TRUE, !.iface_type = "monitor"]
                mode2 == current_mode_of("monitor", o.probe2)
                mm2 == monitor_mode_after_info(s2.monitor_mode, "monitor", o.probe2)
            IN  IF mode2 = "monitor"
                  THEN [ok |-> TRUE, st |-> [s2 EXCEPT !.monitor_mode = TRUE],
                        cmds |-> <<"down", "type", "up">>]
                  ELSE [ok |-> FALSE, st |-> [s2 EXCEPT !.monitor_mode = mm2],
                        cmds |-> <<"down", "type", "up">>]

\* the type disable_monitor_mode asks for (line 162)
target_mode(s) == IF s.original_mode # NoneStr THEN s.original_mode ELSE "managed"

\* WiFiInterface.disable_monitor_mode
disable_monitor_mode(s, o) ==
    IF ~s.monitor_mode THEN [ok |-> TRUE, st |-> s, cmds |-> <<>>]
    ELSE IF o.fail = "down" THEN [ok |-> FALSE, st |-> s, cmds |-> <<"down">>]
    ELSE IF o.fail = "type" \/ ~ValidType(target_mode(s))
      THEN [ok |-> FALSE, st |-> [s EXCEPT !.link_up = FALSE],
            cmds |-> <<"down", "type">>]
    ELSE IF o.fail = "up"
      THEN [ok |-> FALSE,
            st |-> [s EXCEPT !.link_up = FALSE, !.iface_type = target_mode(s)],
            cmds |-> <<"down", "type", "up">>]
    ELSE [ok |-> TRUE,
          st |-> [s EXCEPT !.link_up = TRUE, !.iface_type = target_mode(s),
                           !.monitor_mode = FALSE],
          cmds |-> <<"down", "type", "up">>]

SetIface(st) ==
    /\ iface_type' = st.iface_type
    /\ link_up' = st.link_up
    /\ monitor_mode' = st.monitor_mode
    /\ original_mode' = st.original_mode

ifaceVars == <<iface_type, link_up, monitor_mode, original_mode>>

(***************************************************************************)
(* The WiFiInterface called directly.                                      *)
(***************************************************************************)
ifaceFrame ==
    <<scanning, scan_thread, networks, clients, packets_captured,
      scan_start_time, current_channel, worker, cpc, ret, clock, nframes,
      upserts, rd, apiVars, anVars>>

\* the link and type commands issued include `iw set type`
SetsType(cmds) == Len(cmds) >= 2

\* WiFiInterface.get_interface_info; exists: the name is among
\* netifaces.interfaces() (line 73), p: whether the iwconfig probe answers
GetInterfaceInfo(exists, p) ==
    /\ monitor_mode' = IF exists
                         THEN monitor_mode_after_info(monitor_mode, iface_type, p)
                         ELSE monitor_mode
    /\ icall' = [NoCall EXCEPT
                   !.op = "get_interface_info",
                   !.exists = exists,
                   !.current_mode = IF exists THEN current_mode_of(iface_type, p)
                                    ELSE "unknown",
                   !.before = IfaceState]
    /\ UNCHANGED <<iface_type, link_up, original_mode, ifaceFrame>>

\* WiFiInterface.enable_monitor_mode with the tool outcomes o
EnableMonitorMode(o) ==
    /\ LET e == enable_monitor_mode(IfaceState, o)
       IN  /\ SetIface(e.st)
           /\ icall' = [NoCall EXCEPT
                          !.op = "enable_monitor_mode",
                          !.ok = e.ok,
                          !.cmds = e.cmds,
                          !.target = IF SetsType(e.cmds) THEN "monitor" ELSE NoneStr,
                          !.before = IfaceState]
    /\ UNCHANGED ifaceFrame

\* WiFiInterface.disable_monitor_mode with the tool outcomes o
DisableMonitorMode(o) ==
    /\ LET d == disable_monitor_mode(IfaceState, o)
       IN  /\ SetIface(d.st)
           /\ icall' = [NoCall EXCEPT
                          !.op = "disable_monitor_mode",
                          !.ok = d.ok,
                          !.cmds = d.cmds,
                          !.target = IF SetsType(d.cmds) THEN target_mode(IfaceState)
                                     ELSE NoneStr,
                          !.before = IfaceState]
    /\ UNCHANGED ifaceFrame

(***************************************************************************)
(* IfaceSpec: the three operations of one WiFiInterface in any order, with *)
(* every outcome of the external tools.                                    *)
(***************************************************************************)
IfaceNext ==
    \/ \E exists \in BOOLEAN, p \in ProbeOutcomes : GetInterfaceInfo(exists, p)
    \/ \E o \in ToolOutcomes : EnableMonitorMode(o)
    \/ \E o \in ToolOutcomes : DisableMonitorMode(o)

IfaceSpec == Init /\ [][IfaceNext]_vars

(***************************************************************************)
(* WiFiScanner: the calls of the controlling thread.                       *)
(***************************************************************************)
\* the plan the worker is given (lines 475-477)
PlanOf(ch) == IF IsNonePlan(ch) THEN channels_2_4ghz \o channels_5ghz ELSE ch

\* start_monitor_scan without its guard
StartRejectedNever == FALSE

\* the guard of start_monitor_scan (lines 466-468)
StartRejected == scanning

\* a start that clears the results before it asks for monitor mode
StartClearingFirst(ch, o) ==
    /\ UNCHANGED <<rd, apiVars, icall, anVars>>
    /\ cpc = "idle"
    /\ IF StartRejected
         THEN /\ ret' = [NoRet EXCEPT !.op = "start_monitor_scan", !.ok = FALSE]
              /\ cpc' = "ret"
              /\ UNCHANGED <<ifaceVars, scanning, scan_thread, networks, clients,
                             packets_captured, scan_start_time, current_channel,
                             worker, clock, nframes, upserts>>
         ELSE LET e == enable_monitor_mode(IfaceState, o)
              IN  /\ SetIface(e.st)
                  /\ IF ~e.ok
                       THEN /\ ret' = [NoRet EXCEPT !.op = "start_monitor_scan",
                                                    !.ok = FALSE]
                            /\ cpc' = "ret"
                            /\ packets_captured' = 0
                            /\ networks' = <<>>
                            /\ clients' = <<>>
                            /\ upserts' = [b \in BSSIDs |-> 0]
                            /\ UNCHANGED <<scanning, scan_thread, scan_start_time,
                                           current_channel, worker, clock, nframes>>
                       ELSE /\ Cardinality(Started) < MaxThreads
                            /\ \E now \in NowValues :
                                 /\ clock' = now
                                 /\ scan_start_time' = now
                            /\ scanning' = TRUE
                            /\ packets_captured' = 0
                            /\ networks' = <<>>
                            /\ clients' = <<>>
                            /\ upserts' = [b \in BSSIDs |-> 0]
                            /\ scan_thread' = Cardinality(Started) + 1
                            /\ worker' = [worker EXCEPT
                                 ![Cardinality(Started) + 1] =
                                    [IdleWorker EXCEPT !.pc = "top",
                                                       !.channels = PlanOf(ch)]]
                            /\ ret' = [NoRet EXCEPT !.op = "start_monitor_scan",
                                                    !.channels = ch]
                            /\ cpc' = "ret"
                            /\ UNCHANGED <<current_channel, nframes>>

\* WiFiScanner.start_monitor_scan(channels), with the tool outcomes o
StartMonitorScan(ch, o) ==
    /\ UNCHANGED <<rd, apiVars, icall, anVars>>
    /\ cpc = "idle"
    /\ IF StartRejected
         THEN /\ ret' = [NoRet EXCEPT !.op = "start_monitor_scan", !.ok = FALSE]
              /\ cpc' = "ret"
              /\ UNCHANGED <<ifaceVars, scanning, scan_thread, networks, clients,
                             packets_captured, scan_start_time, current_channel,
                             worker, clock, nframes, upserts>>
         ELSE LET e == enable_monitor_mode(IfaceState, o)
              IN  /\ SetIface(e.st)
                  /\ IF ~e.ok
                       THEN /\ ret' = [NoRet EXCEPT !.op = "start_monitor_scan",
                                                    !.ok = FALSE]
                            /\ cpc' = "ret"
                            /\ UNCHANGED <<scanning, scan_thread, networks, clients,
                                           packets_captured, scan_start_time,
                                           current_channel, worker, clock, nframes,
                                           upserts>>
                       ELSE /\ Cardinality(Started) < MaxThreads
                            /\ \E now \in NowValues :
                                 /\ clock' = now
                                 /\ scan_start_time' = now
                            /\ scanning' = TRUE
                            /\ packets_captured' = 0
                            /\ networks' = <<>>
                            /\ clients' = <<>>
                            /\ upserts' = [b \in BSSIDs |-> 0]
                            /\ scan_thread' = Cardinality(Started) + 1
                            /\ worker' = [worker EXCEPT
                                 ![Cardinality(Started) + 1] =
                                    [IdleWorker EXCEPT !.pc = "top",
                                                       !.channels = PlanOf(ch)]]
                            /\ ret' = [NoRet EXCEPT !.op = "start_monitor_scan",
                                                    !.channels = ch]
                            /\ cpc' = "ret"
                            /\ UNCHANGED <<current_channel, nframes>>

\* stop_scan without the join
AfterFlagClearedNoJoin == "restore"

\* stop_scan, lines 563-564: join only a worker that exists and is alive
AfterFlagCleared ==
    IF scan_thread # 0 /\ is_alive(scan_thread) THEN "join" ELSE "restore"

\* stop_scan, lines 555-564: the guard, the flag, and whether to join
StopBegin ==
    /\ UNCHANGED <<rd, apiVars, icall, anVars>>
    /\ cpc = "idle"
    /\ IF ~scanning
         THEN /\ ret' = [NoRet EXCEPT !.op = "stop_scan"]
              /\ cpc' = "ret"
              /\ UNCHANGED scanning
         ELSE /\ scanning' = FALSE
              /\ ret' = [NoRet EXCEPT !.op = "stop_scan", !.running = TRUE]
              /\ cpc' = AfterFlagCleared
    /\ UNCHANGED <<ifaceVars, scan_thread, networks, clients, packets_captured,
                   scan_start_time, current_channel, worker, clock, nframes, upserts>>

\* stop_scan, line 564: scan_thread.join(timeout=5) returns because the worker
\* exited, or because the timeout passed with the worker still alive
StopJoin(timed_out) ==
    /\ UNCHANGED <<rd, apiVars, icall, anVars>>
    /\ cpc = "join"
    /\ IF timed_out THEN is_alive(scan_thread) ELSE ~is_alive(scan_thread)
    /\ ret' = [ret EXCEPT !.joined = IF timed_out THEN "timeout" ELSE "exited"]
    /\ cpc' = "restore"
    /\ UNCHANGED <<ifaceVars, scanning, scan_thread, networks, clients,
                   packets_captured, scan_start_time, current_channel, worker,
                   clock, nframes, upserts>>

\* stop_scan, lines 566-569: disable_monitor_mode, whose result is ignored
StopRestore(o) ==
    /\ UNCHANGED <<rd, apiVars, icall, anVars>>
    /\ cpc = "restore"
    /\ LET d == disable_monitor_mode(IfaceState, o)
       IN  /\ SetIface(d.st)
           /\ ret' = [ret EXCEPT !.restore = IF d.ok THEN "ok" ELSE "failed"]
    /\ cpc' = "ret"
    /\ UNCHANGED <<scanning, scan_thread, networks, clients, packets_captured,
                   scan_start_time, current_channel, worker, clock, nframes, upserts>>

\* the call returns to its caller
Return ==
    /\ UNCHANGED <<rd, apiVars, icall, anVars>>
    /\ cpc = "ret"
    /\ cpc' = "idle"
    /\ ret' = NoRet
    /\ UNCHANGED <<ifaceVars, scanning, scan_thread, networks, clients,
                   packets_captured, scan_start_time, current_channel, worker,
                   clock, nframes, upserts>>

(***************************************************************************)
(* WiFiScanner._monitor_scan_worker, one thread t.                         *)
(***************************************************************************)
workerFrame ==
    <<ifaceVars, scanning, scan_thread, cpc, ret, rd, apiVars, icall, anVars>>

\* a worker that never looks at the flag
LoopContinuesAlways == TRUE

\* the loop condition of the worker (line 505)
LoopContinues == scanning

\* a set_channel that records the channel whatever the tool answers
set_channel_always(channel, ok) == channel

\* WiFiScanner.set_channel: current_channel after the call (ok: the tool succeeded)
set_channel(channel, ok) == IF ok THEN channel ELSE current_channel

\* lines 505-507: test the flag at the top of an iteration; leave the loop when
\* it is cleared (the thread ends, line 525), else go on to the channel change;
\* the thread makes at most max_hops hops
LoopTop(t, max_hops) ==
    /\ worker[t].pc = "top"
    /\ IF LoopContinues
         THEN IF Len(worker[t].channels) > 0
                THEN /\ worker[t].channel_index < max_hops
                     /\ worker' = [worker EXCEPT ![t].pc = "set_channel"]
                ELSE worker' = [worker EXCEPT ![t].pc = "sniff"]
         ELSE worker' = [worker EXCEPT ![t] = [IdleWorker EXCEPT !.pc = "done"]]
    /\ UNCHANGED <<workerFrame, networks, clients, packets_captured,
                   scan_start_time, current_channel, clock, nframes, upserts>>

WorkerLoopTop(t) == LoopTop(t, MaxHops)

\* a worker that stays on the first channel of its plan
HopChannelFirst(channels, channel_index) == channels[1]

\* line 508: channels[channel_index % len(channels)]
HopChannel(channels, channel_index) ==
    channels[(channel_index % Len(channels)) + 1]

\* a worker that ends when the channel cannot be set
AfterSetChannelAbort(ok) == IF ok THEN "sniff" ELSE "done"

\* line 509: the result of set_channel is not looked at; the capture follows
AfterSetChannel(ok) == "sniff"

\* lines 508-510: the channel of this hop is set (or the tool fails), the index moves on
WorkerSetChannel(t, ok) ==
    /\ worker[t].pc = "set_channel"
    /\ LET w == worker[t]
           channel == HopChannel(w.channels, w.channel_index)
       IN  /\ current_channel' = set_channel(channel, ok)
           /\ worker' = [worker EXCEPT
                ![t].pc = AfterSetChannel(ok),
                ![t].channel_index = w.channel_index + 1,
                ![t].hops = w.hops + 1,
                ![t].requested = channel]
    /\ UNCHANGED <<workerFrame, networks, clients, packets_captured,
                   scan_start_time, clock, nframes, upserts>>

\* a worker that a failed capture window ends
SniffFailureEndsWorker(t) ==
    /\ worker[t].pc = "sniff"
    /\ worker' = [worker EXCEPT ![t] = [IdleWorker EXCEPT !.pc = "done"]]
    /\ UNCHANGED <<workerFrame, networks, clients, packets_captured,
                   scan_start_time, current_channel, clock, nframes, upserts>>

\* lines 513-520: the capture window ends (timeout), or sniff raises and the
\* worker sleeps; either way the loop goes round
SniffEnds(t) ==
    /\ worker[t].pc = "sniff"
    /\ worker' = [worker EXCEPT ![t].pc = "top"]
    /\ UNCHANGED <<workerFrame, networks, clients, packets_captured,
                   scan_start_time, current_channel, clock, nframes, upserts>>

\* the handler position a frame of this kind is dispatched to
\* (packet_handler line 319, process_dot11_packet lines 334-351)
Dispatch(pkt) ==
    CASE pkt.kind = "beacon" -> "beacon"
      [] pkt.kind = "probe_req" -> "probe"
      [] OTHER -> "sniff"

\* a handler that counts the frames with an 802.11 layer only
PacketHandlerDot11Only(t, pkt) ==
    /\ worker[t].pc = "sniff"
    /\ nframes < MaxFrames
    /\ nframes' = nframes + 1
    /\ IF pkt.kind = "raw"
         THEN UNCHANGED <<worker, clock, packets_captured>>
         ELSE /\ packets_captured' = packets_captured + 1
              /\ \E now \in NowValues :
                   /\ clock' = now
                   /\ worker' = [worker EXCEPT
                        ![t].pc = Dispatch(pkt),
                        ![t].pkt = IF Dispatch(pkt) = "sniff" THEN NoFrame ELSE pkt,
                        ![t].timestamp = IF Dispatch(pkt) = "sniff" THEN 0 ELSE now]
    /\ UNCHANGED <<workerFrame, networks, clients, scan_start_time,
                   current_channel, upserts>>

\* packet_handler / process_dot11_packet up to the dispatch: count the frame,
\* read the clock (line 331)
PacketHandler(t, pkt) ==
    /\ worker[t].pc = "sniff"
    /\ nframes < MaxFrames
    /\ nframes' = nframes + 1
    /\ packets_captured' = packets_captured + 1
    /\ IF pkt.kind = "raw"
         THEN UNCHANGED <<worker, clock>>
         ELSE \E now \in NowValues :
                /\ clock' = now
                /\ worker' = [worker EXCEPT
                     ![t].pc = Dispatch(pkt),
                     ![t].pkt = IF Dispatch(pkt) = "sniff" THEN NoFrame ELSE pkt,
                     ![t].timestamp = IF Dispatch(pkt) = "sniff" THEN 0 ELSE now]
    /\ UNCHANGED <<workerFrame, networks, clients, scan_start_time,
                   current_channel, upserts>>

BackToSniff(t) ==
    [worker EXCEPT ![t].pc = "sniff", ![t].pkt = NoFrame, ![t].timestamp = 0]

\* a record created with the encryption class not determined
NewNetworkUnrated(pkt, timestamp) ==
    [bssid |-> pkt.addr, ssid |-> pkt.ssid, channel |-> pkt.channel,
     signal_strength |-> pkt.signal, encryption |-> "Unknown",
     vendor |-> get_vendor(pkt.addr), first_seen |-> timestamp,
     last_seen |-> timestamp, beacon_count |-> 1, clients |-> {}]

\* the record process_beacon_frame creates (lines 383-394)
NewNetwork(pkt, timestamp) ==
    [bssid |-> pkt.addr, ssid |-> pkt.ssid, channel |-> pkt.channel,
     signal_strength |-> pkt.signal, encryption |-> "Open",
     vendor |-> get_vendor(pkt.addr), first_seen |-> timestamp,
     last_seen |-> timestamp, beacon_count |-> 1, clients |-> {}]

\* the update process_beacon_frame makes to an existing record (lines 397-402)
UpdatedNetwork(network, pkt, timestamp) ==
    [network EXCEPT
       !.last_seen = timestamp,
       !.beacon_count = network.beacon_count + 1,
       !.signal_strength = pkt.signal,
       !.ssid = IF pkt.ssid # "" /\ network.ssid = "" THEN pkt.ssid
                ELSE network.ssid]

\* a handler that takes every frame as readable
UnreadableNever(pkt) == FALSE

\* the frame has no address (lines 363-364, 413-414: return), or reading its
\* info field raises (lines 368, 418), which the handler's except clause swallows
Unreadable(pkt) == pkt.addr = NoneStr \/ ~pkt.has_info

\* process_beacon_frame lines 359-382: read the fields, test `bssid not in networks`
ProcessBeaconTest(t) ==
    /\ worker[t].pc = "beacon"
    /\ LET pkt == worker[t].pkt
       IN  worker' =
             IF Unreadable(pkt) THEN BackToSniff(t)
             ELSE IF pkt.addr \notin DOMAIN networks
               THEN [worker EXCEPT ![t].pc = "beacon_new"]
               ELSE [worker EXCEPT ![t].pc = "beacon_upd"]
    /\ UNCHANGED <<workerFrame, networks, clients, packets_captured,
                   scan_start_time, current_channel, clock, nframes, upserts>>

\* an assignment that replaces the dictionary by the one new entry
StoreOnly(store, key, record) == (key :> record)

\* self.networks[bssid] = {...} (line 383): the entry under the key is set,
\* every other entry stays
Store(store, key, record) == (key :> record) @@ store

\* process_beacon_frame lines 383-394: store the new record
ProcessBeaconCreate(t) ==
    /\ worker[t].pc = "beacon_new"
    /\ LET pkt == worker[t].pkt
       IN  /\ networks' = Store(networks, pkt.addr,
                                NewNetwork(pkt, worker[t].timestamp))
           /\ upserts' = [upserts EXCEPT ![pkt.addr] = @ + 1]
    /\ worker' = BackToSniff(t)
    /\ UNCHANGED <<workerFrame, clients, packets_captured, scan_start_time,
                   current_channel, clock, nframes>>

\* process_beacon_frame lines 397-402: update the record; a key that is gone
\* by now raises KeyError, which line 404 swallows
ProcessBeaconUpdate(t) ==
    /\ worker[t].pc = "beacon_upd"
    /\ LET pkt == worker[t].pkt
       IN  IF pkt.addr \in DOMAIN networks
             THEN /\ networks' = [networks EXCEPT ![pkt.addr] =
                         UpdatedNetwork(networks[pkt.addr], pkt, worker[t].timestamp)]
                  /\ upserts' = [upserts EXCEPT ![pkt.addr] = @ + 1]
             ELSE UNCHANGED <<networks, upserts>>
    /\ worker' = BackToSniff(t)
    /\ UNCHANGED <<workerFrame, clients, packets_captured, scan_start_time,
                   current_channel, clock, nframes>>

\* the record process_probe_request creates (lines 428-436)
NewClient(pkt, timestamp) ==
    [mac_address |-> pkt.addr, vendor |-> get_vendor(pkt.addr),
     signal_strength |-> pkt.signal, first_seen |-> timestamp,
     last_seen |-> timestamp, probed_ssids |-> {}, associated_bssid |-> NoneStr]

\* the update process_probe_request makes (lines 438-443)
UpdatedClient(client, pkt, timestamp) ==
    [client EXCEPT
       !.last_seen = timestamp,
       !.signal_strength = pkt.signal,
       !.probed_ssids = IF pkt.ssid # "" THEN @ \cup {pkt.ssid} ELSE @]

\* process_probe_request lines 410-427: read the fields, test `client_mac not in clients`
ProcessProbeTest(t) ==
    /\ worker[t].pc = "probe"
    /\ LET pkt == worker[t].pkt
       IN  worker' =
             IF Unreadable(pkt) THEN BackToSniff(t)
             ELSE IF pkt.addr \notin DOMAIN clients
               THEN [worker EXCEPT ![t].pc = "probe_new"]
               ELSE [worker EXCEPT ![t].pc = "probe_upd"]
    /\ UNCHANGED <<workerFrame, networks, clients, packets_captured,
                   scan_start_time, current_channel, clock, nframes, upserts>>

\* process_probe_request lines 428-443: create the record when the test found
\* none, then update the record under the key (KeyError swallowed at line 445)
ProcessProbeStore(t) ==
    /\ worker[t].pc \in {"probe_new", "probe_upd"}
    /\ LET pkt == worker[t].pkt
           ts == worker[t].timestamp
       IN  clients' =
             IF worker[t].pc = "probe_new"
               THEN (pkt.addr :> UpdatedClient(NewClient(pkt, ts), pkt, ts)) @@ clients
             ELSE IF pkt.addr \in DOMAIN clients
               THEN [clients EXCEPT ![pkt.addr] = UpdatedClient(@, pkt, ts)]
             ELSE clients
    /\ worker' = BackToSniff(t)
    /\ UNCHANGED <<workerFrame, networks, packets_captured, scan_start_time,
                   current_channel, clock, nframes, upserts>>

\* one step of worker thread t's loop outside the packet callback: the flag
\* test, the channel hop, the end of a capture window
LoopStep(t) ==
    \/ WorkerLoopTop(t)
    \/ \E ok \in BOOLEAN : WorkerSetChannel(t, ok)
    \/ SniffEnds(t)

\* one step of worker thread t's capture loop, the capture delivering frames of F
CaptureStep(t, F) ==
    \/ LoopStep(t)
    \/ \E pkt \in F : PacketHandler(t, pkt)

\* one step of worker thread t inside process_beacon_frame / process_probe_request
StoreStep(t) ==
    \/ ProcessBeaconTest(t)
    \/ ProcessBeaconCreate(t)
    \/ ProcessBeaconUpdate(t)
    \/ ProcessProbeTest(t)
    \/ ProcessProbeStore(t)

(***************************************************************************)
(* Spec: the scan lifecycle of one WiFiScanner with every outcome of the   *)
(* external tools; the capture delivers the frames that are counted and    *)
(* not stored (no 802.11 layer, probe response, authentication,            *)
(* deauthentication, other 802.11).                                        *)
(***************************************************************************)
CountedFrames == {f \in Frames : Dispatch(f) = "sniff"}

Next ==
    \/ \E ch \in ChannelArgs, o \in ToolOutcomes : StartMonitorScan(ch, o)
    \/ StopBegin
    \/ \E timed_out \in BOOLEAN : StopJoin(timed_out)
    \/ \E o \in ToolOutcomes : StopRestore(o)
    \/ Return
    \/ \E t \in Threads : CaptureStep(t, CountedFrames)

Spec == Init /\ [][Next]_vars

(***************************************************************************)
(* IngestSpec: the same scanner with the tools succeeding and one channel  *)
(* plan, the capture delivering every frame of Frames.                     *)
(***************************************************************************)
ToolsSucceed == [probe1 |-> "ok", fail |-> "none", probe2 |-> "ok"]

IngestInit == Init /\ iface_type = "managed"

IngestNext ==
    \/ StartMonitorScan(<<6, 11>>, ToolsSucceed)
    \/ StopBegin
    \/ \E timed_out \in BOOLEAN : StopJoin(timed_out)
    \/ StopRestore(ToolsSucceed)
    \/ Return
    \/ \E t \in Threads : CaptureStep(t, Frames) \/ StoreStep(t)

IngestSpec == IngestInit /\ [][IngestNext]_vars

(***************************************************************************)
(* RestoreSpec: starting and stopping with every outcome of the external   *)
(* tools and one channel plan; the capture windows pass without a frame.   *)
(***************************************************************************)
RestoreNext ==
    \/ \E o \in ToolOutcomes : StartMonitorScan(<<6, 11>>, o)
    \/ StopBegin
    \/ \E timed_out \in BOOLEAN : StopJoin(timed_out)
    \/ \E o \in ToolOutcomes : StopRestore(o)
    \/ Return
    \/ \E t \in Threads : LoopStep(t)

RestoreSpec == Init /\ [][RestoreNext]_vars

(***************************************************************************)
(* LiveSpec: starting and stopping with the tools succeeding and one       *)
(* channel plan, the capture delivering frames without an 802.11 layer.    *)
(* The operating system schedules every live worker thread, and each of    *)
(* its blocking calls (set channel: 5 s, capture window: 0.5 s) returns.   *)
(***************************************************************************)
RawFrames == {f \in Frames : f.kind = "raw"}

StopNext ==
    \/ StartMonitorScan(<<6, 11>>, ToolsSucceed)
    \/ StopBegin
    \/ \E timed_out \in BOOLEAN : StopJoin(timed_out)
    \/ StopRestore(ToolsSucceed)
    \/ Return
    \/ \E t \in Threads : CaptureStep(t, RawFrames)

LiveSpec ==
    /\ IngestInit
    /\ [][StopNext]_vars
    /\ \A t \in Threads : WF_vars(CaptureStep(t, RawFrames))

(***************************************************************************)
(* StartSpec: start_monitor_scan called again and again, with every        *)
(* outcome of the tools, while the worker of the accepted call ingests     *)
(* every frame of Frames.                                                  *)
(***************************************************************************)
StartNext ==
    \/ \E o \in ToolOutcomes : StartMonitorScan(<<6, 11>>, o)
    \/ Return
    \/ \E t \in Threads : CaptureStep(t, Frames) \/ StoreStep(t)

StartSpec == Init /\ [][StartNext]_vars

(***************************************************************************)
(* SessionSpec: scan sessions one after another, each stop_scan waiting    *)
(* for its worker to exit, the capture delivering every frame of Frames.   *)
(***************************************************************************)
SessionNext ==
    \/ StartMonitorScan(<<6, 11>>, ToolsSucceed)
    \/ StopBegin
    \/ StopJoin(FALSE)
    \/ StopRestore(ToolsSucceed)
    \/ Return
    \/ \E t \in Threads : CaptureStep(t, Frames) \/ StoreStep(t)

SessionSpec == IngestInit /\ [][SessionNext]_vars

(***************************************************************************)
(* HopSpec: sessions one after another with either channel plan, each      *)
(* worker hopping long enough to wrap the longest plan; no frame arrives.  *)
(***************************************************************************)
\* channel hops one worker makes in HopSpec
MaxPlanHops == 40

HopLoopStep(t) ==
    \/ LoopTop(t, MaxPlanHops)
    \/ \E ok \in BOOLEAN : WorkerSetChannel(t, ok)
    \/ SniffEnds(t)

HopNext ==
    \/ \E ch \in ChannelArgs : StartMonitorScan(ch, ToolsSucceed)
    \/ StopBegin
    \/ StopJoin(FALSE)
    \/ StopRestore(ToolsSucceed)
    \/ Return
    \/ \E t \in Threads : HopLoopStep(t)

HopSpec == IngestInit /\ [][HopNext]_vars

(***************************************************************************)
(* WiFiScanner.get_scan_results, read by a thread other than the worker.   *)
(* The two comprehensions iterate the live dictionaries; a dictionary      *)
(* whose size changed since the iteration began raises RuntimeError.       *)
(***************************************************************************)
readFrame ==
    <<coreVars, apiVars, icall, anVars>>

\* line 577/583: the iteration over self.networks.items() begins
ReadBegin ==
    /\ rd.pc = "idle"
    /\ rd' = [NoRead EXCEPT !.pc = "networks", !.len = Cardinality(DOMAIN networks)]
    /\ UNCHANGED readFrame

\* the times of a record as the snapshot carries them (lines 581-582, 587-588)
Times(record) == [first_seen |-> record.first_seen, last_seen |-> record.last_seen]

\* lines 577-583: the next item of the iteration, or its end, or RuntimeError
ReadNetwork ==
    /\ rd.pc = "networks"
    /\ IF Cardinality(DOMAIN networks) # rd.len
         THEN rd' = [rd EXCEPT !.pc = "ret", !.failed = TRUE]
         ELSE IF DOMAIN networks \subseteq DOMAIN rd.nets
           THEN rd' = [rd EXCEPT !.pc = "clients",
                                 !.len = Cardinality(DOMAIN clients)]
           ELSE \E bssid \in DOMAIN networks \ DOMAIN rd.nets :
                  rd' = [rd EXCEPT !.nets = (bssid :> Times(networks[bssid])) @@ @]
    /\ UNCHANGED readFrame

\* lines 584-589: the same over self.clients.items()
ReadClient ==
    /\ rd.pc = "clients"
    /\ IF Cardinality(DOMAIN clients) # rd.len
         THEN rd' = [rd EXCEPT !.pc = "ret", !.failed = TRUE]
         ELSE IF DOMAIN clients \subseteq DOMAIN rd.clts
           THEN rd' = [rd EXCEPT !.pc = "scan_info"]
           ELSE \E mac \in DOMAIN clients \ DOMAIN rd.clts :
                  rd' = [rd EXCEPT !.clts = (mac :> Times(clients[mac])) @@ @]
    /\ UNCHANGED readFrame

\* lines 590-598: scan_info, with the sizes of the dictionaries as they are now
ReadScanInfo ==
    /\ rd.pc = "scan_info"
    /\ rd' = [rd EXCEPT !.pc = "ret",
                        !.networks_found = Cardinality(DOMAIN networks),
                        !.clients_found = Cardinality(DOMAIN clients)]
    /\ UNCHANGED readFrame

\* the snapshot (or the exception) reaches the caller
ReadReturn ==
    /\ rd.pc = "ret"
    /\ rd' = NoRead
    /\ UNCHANGED readFrame

(***************************************************************************)
(* ReadSpec: one scan, its worker ingesting every frame of Frames, and a   *)
(* concurrent reader.                                                      *)
(***************************************************************************)
ReadNext ==
    \/ StartMonitorScan(<<6, 11>>, ToolsSucceed)
    \/ Return
    \/ \E t \in Threads : CaptureStep(t, Frames) \/ StoreStep(t)
    \/ ReadBegin
    \/ ReadNetwork
    \/ ReadClient
    \/ ReadScanInfo
    \/ ReadReturn

ReadSpec == IngestInit /\ [][ReadNext]_vars

(***************************************************************************)
(* The HTTP layer: start_scan, stop_scan and the threads they start.  A    *)
(* request handler runs under scanner_lock from its test to its response;  *)
(* the threads it starts take no lock.  A WiFiScanner instance is kept as  *)
(* its scanning flag, its worker and the mode restorations it has made.    *)
(***************************************************************************)
apiFrame ==
    <<coreVars, rd, icall, anVars>>

Created == {i \in Instances : session[i].status # "none"}

\* the guard of start_scan (line 86)
ScanAlreadyInProgress == scanner # 0 /\ inst[scanner].scanning

\* the guard of the stop request (line 199)
NoScanInProgress == scanner = 0 \/ ~inst[scanner].scanning

\* stop_scan without its guard (lines 555-557)
stop_scan_unguarded(w, timed_out) ==
    [scanning |-> FALSE,
     worker |-> IF timed_out /\ w.worker = "alive" THEN "alive" ELSE w.worker,
     restores |-> w.restores + 1]

\* WiFiScanner.stop_scan on instance record w (wifi_scanner.py 552-572):
\* nothing when not scanning; else clear the flag, join (the worker has
\* exited, or the join timed out), restore the mode
stop_scan(w, timed_out) ==
    IF ~w.scanning THEN w
    ELSE [scanning |-> FALSE,
          worker |-> IF timed_out THEN "alive" ELSE "done",
          restores |-> w.restores + 1]

\* POST /scan/start (lines 74-189); mon_ok: start_monitor_scan succeeded
ApiStartScan(scan_type, mon_ok) ==
    /\ apc = "idle"
    /\ apc' = "ret"
    /\ IF ScanAlreadyInProgress
         THEN /\ resp' = [op |-> "start_scan", success |-> FALSE, code |-> 400,
                          running |-> TRUE]
              /\ UNCHANGED <<scanner, inst, session, basic, timer>>
         ELSE LET n == Cardinality(Created) + 1
              IN  /\ n <= MaxScanners
                  /\ scanner' = n
                  /\ IF scan_type = "basic"
                       THEN /\ mon_ok
                            /\ basic' = [basic EXCEPT ![n] = "running"]
                            /\ session' = [session EXCEPT ![n] =
                                 [scan_type |-> scan_type, status |-> "running"]]
                            /\ resp' = [op |-> "start_scan", success |-> TRUE,
                                        code |-> 200, running |-> FALSE]
                            /\ UNCHANGED <<inst, timer>>
                     ELSE IF scan_type = "monitor"
                       THEN IF mon_ok
                              THEN /\ inst' = [inst EXCEPT ![n] =
                                        [NoInstance EXCEPT !.scanning = TRUE,
                                                           !.worker = "alive"]]
                                   /\ timer' = [timer EXCEPT ![n] = "sleeping"]
                                   /\ session' = [session EXCEPT ![n] =
                                        [scan_type |-> scan_type, status |-> "running"]]
                                   /\ resp' = [op |-> "start_scan", success |-> TRUE,
                                               code |-> 200, running |-> FALSE]
                                   /\ UNCHANGED basic
                              ELSE /\ session' = [session EXCEPT ![n] =
                                        [scan_type |-> scan_type, status |-> "error"]]
                                   /\ resp' = [op |-> "start_scan", success |-> FALSE,
                                               code |-> 500, running |-> FALSE]
                                   /\ UNCHANGED <<inst, basic, timer>>
                     ELSE /\ mon_ok
                          /\ session' = [session EXCEPT ![n] =
                               [scan_type |-> scan_type, status |-> "running"]]
                          /\ resp' = [op |-> "start_scan", success |-> TRUE,
                                      code |-> 200, running |-> FALSE]
                          /\ UNCHANGED <<inst, basic, timer>>
    /\ UNCHANGED apiFrame

\* basic_scan_worker (lines 111-148) ends: results stored, or an exception
BasicScanWorkerEnds(n, ok) ==
    /\ basic[n] = "running"
    /\ basic' = [basic EXCEPT ![n] = "done"]
    /\ session' = [session EXCEPT ![n].status = IF ok THEN "completed" ELSE "error"]
    /\ UNCHANGED <<scanner, inst, timer, apc, resp, apiFrame>>

\* POST /scan/stop (lines 193-217)
ApiStopScan(timed_out) ==
    /\ apc = "idle"
    /\ apc' = "ret"
    /\ IF NoScanInProgress
         THEN /\ resp' = [op |-> "stop_scan", success |-> FALSE, code |-> 400,
                          running |-> FALSE]
              /\ UNCHANGED inst
         ELSE /\ inst' = [inst EXCEPT ![scanner] = stop_scan(@, timed_out)]
              /\ resp' = [op |-> "stop_scan", success |-> TRUE, code |-> 200,
                          running |-> TRUE]
    /\ UNCHANGED <<scanner, session, basic, timer, apiFrame>>

\* the response is sent and scanner_lock released
ApiReturn ==
    /\ apc = "ret"
    /\ apc' = "idle"
    /\ resp' = NoResp
    /\ UNCHANGED <<scanner, inst, session, basic, timer, apiFrame>>

\* stop_scan_after_duration of session n (lines 166-172) wakes up: it stops
\* whatever the global scanner is now and marks its own session completed
StopScanAfterDuration(n, timed_out) ==
    /\ timer[n] = "sleeping"
    /\ timer' = [timer EXCEPT ![n] =
         IF scanner # 0 /\ inst[scanner].scanning THEN "stopped" ELSE "noop"]
    /\ IF scanner # 0
         THEN /\ inst' = [inst EXCEPT ![scanner] = stop_scan(@, timed_out)]
              /\ session' = [session EXCEPT ![n].status = "completed"]
         ELSE UNCHANGED <<inst, session>>
    /\ UNCHANGED <<scanner, basic, apc, resp, apiFrame>>

\* the worker of a stopped instance, still alive after a timed-out join,
\* sees the cleared flag and exits (wifi_scanner.py 505, 524-525)
InstanceWorkerExits(i) ==
    /\ inst[i].worker = "alive"
    /\ ~inst[i].scanning
    /\ inst' = [inst EXCEPT ![i].worker = "done"]
    /\ UNCHANGED <<scanner, session, basic, timer, apc, resp, apiFrame>>

ScanTypes == {"basic", "monitor", "passive"}

ApiNext ==
    \/ \E scan_type \in ScanTypes, mon_ok \in BOOLEAN : ApiStartScan(scan_type, mon_ok)
    \/ \E n \in Instances, ok \in BOOLEAN : BasicScanWorkerEnds(n, ok)
    \/ \E timed_out \in BOOLEAN : ApiStopScan(timed_out)
    \/ ApiReturn
    \/ \E n \in Instances, timed_out \in BOOLEAN : StopScanAfterDuration(n, timed_out)
    \/ \E i \in Instances : InstanceWorkerExits(i)

ApiSpec == IngestInit /\ [][ApiNext]_vars

(***************************************************************************)
(* Properties.                                                             *)
(***************************************************************************)
scannerState ==
    <<scanning, scan_start_time, packets_captured, networks, clients,
      scan_thread, worker, current_channel, ifaceVars>>

\* C1: a start_monitor_scan call made while scanning is true reports failure
\* and changes nothing: the flag, the start time, the frame counter, both
\* stores, the worker thread and the interface stay as they were.
C1_RejectedStartChangesNothing ==
    [][(cpc = "idle" /\ scanning /\ cpc' = "ret" /\ ret'.op = "start_monitor_scan")
         => (ret'.ok = FALSE /\ UNCHANGED scannerState)]_vars

\* a rejected start of a scanner that has frames, a network and a live worker
C1_Witness ==
    /\ cpc = "ret" /\ ret.op = "start_monitor_scan" /\ ~ret.ok
    /\ scanning
    /\ packets_captured > 0
    /\ DOMAIN networks # {}
    /\ is_alive(scan_thread)

\* C4: at most one scan worker of the scanner is alive at any time.
C4_AtMostOneWorkerAlive == Cardinality(Alive) <= 1

\* C5: once the flag is cleared, every live worker exits unless a new scan
\* sets the flag again, and a worker that has exited takes no further step
\* (no channel set, no capture).
C5_WorkerExitsAfterStop ==
    /\ \A t \in Threads : (~scanning /\ is_alive(t)) ~> (~is_alive(t) \/ scanning)
    /\ [][\A t \in Threads : worker[t].pc = "done" => worker'[t] = worker[t]]_vars

\* the worker of a stopped scan has exited after capturing frames
C5_Witness ==
    /\ ~scanning
    /\ scan_thread # 0 /\ worker[scan_thread].pc = "done"
    /\ packets_captured > 0
    /\ cpc = "restore" /\ ret.joined = "exited"

\* C6: stop_scan of a running scan starts the mode restoration only after the
\* worker has exited or the join has timed out; it returns normally with
\* scanning false and the restoration attempted, whatever its outcome.
C6_RestoreAfterJoin ==
    /\ cpc = "restore" =>
         (scan_thread = 0 \/ ~is_alive(scan_thread) \/ ret.joined = "timeout")
    /\ (cpc = "ret" /\ ret.op = "stop_scan" /\ ret.running) =>
         (ret.restore \in {"ok", "failed"} /\ ret.ok /\ ~scanning)

\* stop_scan returned after a timed-out join and a failed restoration
C6_Witness ==
    /\ cpc = "ret" /\ ret.op = "stop_scan" /\ ret.running
    /\ ret.joined = "timeout" /\ ret.restore = "failed"
    /\ is_alive(scan_thread)
    /\ monitor_mode

\* C7: a snapshot get_scan_results returns while the worker ingests frames is
\* one logical instant of the store: the call does not fail, the counts of
\* scan_info equal the sizes of the returned maps, and no record has
\* last_seen before first_seen.
C7_SnapshotConsistent ==
    rd.pc = "ret" =>
      /\ ~rd.failed
      /\ rd.networks_found = Cardinality(DOMAIN rd.nets)
      /\ rd.clients_found = Cardinality(DOMAIN rd.clts)
      /\ \A b \in DOMAIN rd.nets : rd.nets[b].last_seen >= rd.nets[b].first_seen
      /\ \A m \in DOMAIN rd.clts : rd.clts[m].last_seen >= rd.clts[m].first_seen

\* C8: the beacon_count of every record equals the number of beacon upserts
\* applied for its BSSID since the store reset, and it never decreases.
C8_BeaconCountEqualsUpserts ==
    \A b \in DOMAIN networks : networks[b].beacon_count = upserts[b]

\* C9: every record has last_seen not before first_seen and carries the key
\* it is stored under as its bssid.
C9_LastSeenNotBeforeFirstSeen ==
    \A b \in DOMAIN networks :
      /\ networks[b].last_seen >= networks[b].first_seen
      /\ networks[b].bssid = b

\* C10: a non-empty SSID of a record is never overwritten, neither by an
\* empty SSID nor by a different one.
C10_SsidBackfilledOnce ==
    [][\A b \in DOMAIN networks \cap DOMAIN networks' :
         networks[b].ssid # "" => networks'[b].ssid = networks[b].ssid]_vars

\* scans in progress: running basic scan workers and scanning instances
InProgress == {i \in Instances : basic[i] = "running" \/ inst[i].scanning}

\* C2: through start_scan at most one scan (basic or monitor) is in progress.
C2_AtMostOneScanInProgress == Cardinality(InProgress) <= 1

\* C3 as stated: the stop request for a scan that is not running answers success.
C3_StopOfIdleReportsSuccess ==
    (apc = "ret" /\ resp.op = "stop_scan" /\ ~resp.running) => resp.success

\* C3, amended: stopping a scan that is not running changes nothing.  The stop
\* request answers 400 'No scan in progress' and leaves the scanner, the
\* sessions and the threads as they were; WiFiScanner.stop_scan on a scanner
\* that is not scanning (here called by the timer) leaves the instance as it
\* was: flag, worker, and no mode restoration.
C3_StopOfIdleIsNoOp ==
    [][/\ (apc = "idle" /\ apc' = "ret" /\ resp'.op = "stop_scan" /\ NoScanInProgress)
           => (/\ ~resp'.success
               /\ resp'.code = 400
               /\ UNCHANGED <<scanner, inst, session, basic, timer>>)
       /\ \A n \in Instances :
            (timer[n] = "sleeping" /\ timer'[n] # "sleeping" /\ scanner # 0
               /\ ~inst[scanner].scanning)
            => inst' = inst]_vars

\* the stop request was refused for a scanner whose scan had been stopped by
\* a request, and whose timer then found it not scanning
C3_Witness ==
    /\ apc = "ret" /\ resp.op = "stop_scan" /\ resp.code = 400
    /\ scanner # 0 /\ inst[scanner].restores = 1
    /\ timer[scanner] = "noop"

\* a step in which start_monitor_scan is accepted (it resets both stores)
AcceptedStart ==
    cpc = "idle" /\ cpc' = "ret" /\ ret'.op = "start_monitor_scan" /\ ret'.ok

\* C11: between one accepted start_monitor_scan and the next the known BSSIDs
\* and the known client addresses only grow: no frame and no stop_scan removes
\* a record; records go only with the reset of an accepted start.
C11_RecordsOnlyGrow ==
    [][AcceptedStart \/ (/\ DOMAIN networks \subseteq DOMAIN networks'
                         /\ DOMAIN clients \subseteq DOMAIN clients')]_vars

\* stop_scan has returned from a scan that found a network and a client
C11_Witness ==
    /\ cpc = "ret" /\ ret.op = "stop_scan" /\ ret.running
    /\ DOMAIN networks # {}
    /\ DOMAIN clients # {}

\* the SSID a probe request contributes to probed_ssids (line 442)
Probed(pkt) == IF pkt.ssid # "" THEN {pkt.ssid} ELSE {}

\* C12: within a session the probed SSIDs of every client record only grow, and
\* a probe request stored for a known client leaves the record with its former
\* SSIDs plus the probed one (nothing for an empty SSID, no duplicate).
C12_ProbedSsidsOnlyGrow ==
    [][AcceptedStart \/
       /\ \A mac \in DOMAIN clients :
            /\ mac \in DOMAIN clients'
            /\ clients[mac].probed_ssids \subseteq clients'[mac].probed_ssids
       /\ \A t \in Threads :
            (/\ worker[t].pc \in {"probe_new", "probe_upd"}
             /\ worker'[t].pc = "sniff"
             /\ worker[t].pkt.addr \in DOMAIN clients)
            => clients'[worker[t].pkt.addr].probed_ssids =
                 clients[worker[t].pkt.addr].probed_ssids \cup Probed(worker[t].pkt)
      ]_vars

\* the channel the k-th hop (k = 0, 1, ...) of a plan is to request
PlanChannel(plan, k) == plan[(k % Len(plan)) + 1]

\* C13: the worker of an accepted start has the plan given, or channels 1..14
\* followed by the 5 GHz list when none was given; its k-th hop requests
\* plan[k mod L]; and every capture window is entered through one
\* set_channel request.
C13_HopOrder ==
    [][/\ AcceptedStart =>
            worker'[scan_thread'].channels =
               IF IsNonePlan(ret'.channels)
                 THEN [i \in 1..14 |-> i] \o channels_5ghz
                 ELSE ret'.channels
       /\ \A t \in Threads :
            /\ worker'[t].hops > 0 =>
                 worker'[t].requested =
                    PlanChannel(worker'[t].channels, worker'[t].hops - 1)
            /\ (worker[t].pc \in {"top", "set_channel"} /\ worker'[t].pc = "sniff")
                 => worker'[t].hops = worker[t].hops + 1
      ]_vars

\* a worker on the default plan has wrapped: its 39th hop asked for channel 1
C13_Witness ==
    \E t \in Threads :
        /\ scanning /\ worker[t].pc = "sniff"
        /\ Len(worker[t].channels) = 38
        /\ worker[t].hops = 39
        /\ worker[t].requested = 1

\* C14: a set_channel that fails (the channel asked for is not the current one
\* afterwards) does not abort the scan: the worker goes on to the capture
\* window, scanning is untouched, and the hop after a failed one asks for the
\* next channel of the plan.
C14_FailedHopContinues ==
    [][\A t \in Threads :
         /\ (/\ worker[t].pc = "set_channel"
             /\ worker'[t] # worker[t]
             /\ current_channel' # worker'[t].requested)
            => /\ worker'[t].pc = "sniff"
               /\ scanning' = scanning
               /\ worker'[t].channel_index = worker[t].channel_index + 1
         /\ (/\ worker[t].hops > 0
             /\ worker'[t].hops = worker[t].hops + 1
             /\ current_channel # worker[t].requested)
            => worker'[t].requested = PlanChannel(worker[t].channels, worker[t].hops)
      ]_vars

\* after a failed first hop the worker captured, and its second hop went on
\* to the second channel of the plan while the scan is still on
C14_Witness ==
    \E t \in Threads :
        /\ scanning /\ worker[t].pc = "sniff"
        /\ worker[t].channels = <<6, 11>>
        /\ worker[t].hops = 2 /\ worker[t].requested = 11
        /\ current_channel = 1

\* C15: set_channel(n) makes current_channel n when the tool succeeds and
\* leaves it when the tool fails, and nothing else writes current_channel.
C15_CurrentChannel ==
    [][/\ \A t \in Threads, ok \in BOOLEAN :
            WorkerSetChannel(t, ok) =>
               current_channel' = IF ok THEN worker'[t].requested ELSE current_channel
       /\ current_channel' # current_channel =>
            \E t \in Threads : WorkerSetChannel(t, TRUE)
      ]_vars

\* a later set_channel failed and current_channel kept the channel of the
\* last one that succeeded
C15_Witness ==
    \E t \in Threads :
        /\ worker[t].pc = "sniff" /\ worker[t].hops = 2
        /\ worker[t].channels = <<6, 11>>
        /\ current_channel = 6

\* C16: disable_monitor_mode asks for the type recorded when monitor mode was
\* entered, or "managed" when none was recorded, and a successful call leaves
\* the adapter in it; when the adapter was found managed, or its mode could
\* not be determined, the type asked for is a valid type other than monitor.
C16_RestoresRecordedMode ==
    (icall.op = "disable_monitor_mode" /\ SetsType(icall.cmds)) =>
        /\ icall.target = IF icall.before.original_mode # NoneStr
                            THEN icall.before.original_mode ELSE "managed"
        /\ icall.ok => iface_type = icall.target
        /\ icall.before.original_mode \in {NoneStr, "managed", "unknown"} =>
             (ValidType(icall.target) /\ icall.target # "monitor")

\* the state an enable_monitor_mode that issued n commands and failed leaves
\* the adapter in: the commands before the failing one have taken effect
LeftBy(before, n, up) ==
    CASE n = 1 -> [iface_type |-> before.iface_type, link_up |-> before.link_up]
      [] n = 2 -> [iface_type |-> before.iface_type, link_up |-> FALSE]
      [] OTHER -> [iface_type |-> "monitor", link_up |-> up]

\* C17: a failing enable_monitor_mode reports failure, stops at the failing
\* step, undoes nothing, and does not set the controller's monitor_mode flag.
C17_FailedEnableLeavesFlag ==
    (icall.op = "enable_monitor_mode" /\ ~icall.ok) =>
        /\ icall.cmds \in {<<"down">>, <<"down", "type">>, <<"down", "type", "up">>}
        /\ [iface_type |-> iface_type, link_up |-> link_up] =
              LeftBy(icall.before, Len(icall.cmds), link_up)
        /\ ~monitor_mode

\* C18: enable_monitor_mode on a controller already in monitor mode, and
\* disable_monitor_mode on one that is not, return success, issue no command
\* and leave adapter and controller as they were.
C18_ModeTransitionsIdempotent ==
    /\ (icall.op = "enable_monitor_mode" /\ icall.before.monitor_mode) =>
          (icall.ok /\ icall.cmds = <<>> /\ IfaceState = icall.before)
    /\ (icall.op = "disable_monitor_mode" /\ ~icall.before.monitor_mode) =>
          (icall.ok /\ icall.cmds = <<>> /\ IfaceState = icall.before)

\* enable_monitor_mode called again after it had switched a managed adapter
C18_Witness ==
    /\ icall.op = "enable_monitor_mode"
    /\ icall.before.monitor_mode
    /\ icall.before.original_mode = "managed"
    /\ iface_type = "monitor"

\* C19: get_interface_info changes neither the controller nor the adapter,
\* and for a name that does not exist it returns without raising.
C19_InfoIsReadOnly ==
    icall.op = "get_interface_info" =>
        /\ IfaceState = icall.before
        /\ icall.ok
        /\ ~icall.exists => icall.current_mode = "unknown"

\* a frame that is to be dropped: no 802.11 layer, or unreadable
Dropped(pkt) == pkt.kind = "raw" \/ pkt.addr = NoneStr \/ ~pkt.has_info

\* C20 as stated: a dropped frame leaves both stores as they are and is not
\* counted in packets_captured, the count of the frames taken in.
C20_DroppedCountedApart ==
    [][\A t \in Threads, pkt \in {f \in Frames : Dropped(f)} :
         PacketHandler(t, pkt) =>
            /\ networks' = networks /\ clients' = clients
            /\ packets_captured' = packets_captured
      ]_vars

\* C20, amended: a dropped frame is counted in packets_captured like every
\* other frame (there is no other counter), and it leaves both stores as
\* they are: its handler returns to the capture without a write.
C20_DroppedFrameCounted ==
    [][/\ \A t \in Threads, pkt \in {f \in Frames : Dropped(f)} :
            PacketHandler(t, pkt) =>
               /\ networks' = networks /\ clients' = clients
               /\ packets_captured' = packets_captured + 1
       /\ \A t \in Threads :
            (/\ worker'[t] # worker[t]
             /\ worker[t].pc \in {"beacon", "probe"}
             /\ Dropped(worker[t].pkt))
            => /\ networks' = networks /\ clients' = clients
               /\ packets_captured' = packets_captured
               /\ worker'[t].pc = "sniff"
      ]_vars

\* an unreadable beacon has been counted after a beacon that was stored
C20_Witness ==
    \E t \in Threads :
        /\ worker[t].pc = "beacon" /\ ~worker[t].pkt.has_info
        /\ packets_captured = 2
        /\ DOMAIN networks # {}

(***************************************************************************)
(* The analyzer (backend/src/core/advanced_analyzer.py).  Its methods are  *)
(* functions of the list of network dicts they are handed.  A dict is a    *)
(* function whose DOMAIN is its set of keys, so that an absent key differs *)
(* from an empty value; a Python str is the sequence of its characters.    *)
(***************************************************************************)
anFrame == <<coreVars, rd, apiVars, icall>>

\* dict.get(key, default)
Get(network, key, default) ==
    IF key \in DOMAIN network THEN network[key] ELSE default

\* a difference taken with its sign
Signed(x) == x

\* abs()
Abs(x) == IF x < 0 THEN 0 - x ELSE x

\* lists of at most n elements of S
ListsUpTo(S, n) == UNION {[1..k -> S] : k \in 0..n}

Range(s) == {s[i] : i \in DOMAIN s}

RECURSIVE Concat(_)
Concat(ss) == IF ss = <<>> THEN <<>> ELSE Head(ss) \o Concat(Tail(ss))

\* the value None of a key whose values are strings (a column that is NULL)
None == <<NoneStr>>

\* line 32: if network.get('ssid')  -- None and '' are falsy
HasSsid(network) == Get(network, "ssid", None) \notin {<<>>, None}

\* the keys of ssid_groups in insertion order (lines 31-33)
RECURSIVE GroupKeys(_)
GroupKeys(nets) ==
    IF nets = <<>> THEN <<>>
    ELSE LET n == Len(nets)
             before == GroupKeys(SubSeq(nets, 1, n - 1))
             last == nets[n]
         IN  IF HasSsid(last) /\ last.ssid \notin Range(before)
                THEN Append(before, last.ssid) ELSE before

\* ssid_groups[ssid] (lines 31-33)
Group(nets, ssid) ==
    LET InGroup(network) == HasSsid(network) /\ network.ssid = ssid
    IN  SelectSeq(nets, InGroup)

\* lines 43-44: the test on a pair
IsTwin(net1, net2) ==
    /\ net1.bssid # net2.bssid
    /\ Abs(Get(net1, "signal_strength", 0 - 100)
           - Get(net2, "signal_strength", 0 - 100)) < 10

\* lines 46-53 (detected_at, the time of the call, is left out)
TwinFinding(ssid, net1, net2) ==
    [type |-> "evil_twin", severity |-> "high", ssid |-> ssid,
     networks |-> <<net1, net2>>,
     description |-> <<"Potential evil twin detected for ", ssid>>]

\* a detector that leaves the inner loop at the first pair it reports
RECURSIVE TwinsFromFirst(_, _, _, _)
TwinsFromFirst(ssid, network_list, i, j) ==
    IF i > Len(network_list) THEN <<>>
    ELSE IF j > Len(network_list)
            THEN TwinsFromFirst(ssid, network_list, i + 1, i + 2)
    ELSE IF IsTwin(network_list[i], network_list[j])
            THEN <<TwinFinding(ssid, network_list[i], network_list[j])>>
                 \o TwinsFromFirst(ssid, network_list, i + 1, i + 2)
    ELSE TwinsFromFirst(ssid, network_list, i, j + 1)

\* lines 40-53: net1 = network_list[i], net2 runs over network_list[i+1:]
RECURSIVE TwinsFrom(_, _, _, _)
TwinsFrom(ssid, network_list, i, j) ==
    IF i > Len(network_list) THEN <<>>
    ELSE IF j > Len(network_list) THEN TwinsFrom(ssid, network_list, i + 1, i + 2)
    ELSE (IF IsTwin(network_list[i], network_list[j])
             THEN <<TwinFinding(ssid, network_list[i], network_list[j])>>
             ELSE <<>>)
         \o TwinsFrom(ssid, network_list, i, j + 1)

\* ThreatDetector.detect_evil_twin (lines 26-54)
detect_evil_twin(nets) ==
    LET keys == GroupKeys(nets)
    IN  Concat([k \in DOMAIN keys |->
                  LET network_list == Group(nets, keys[k])
                  IN  IF Len(network_list) > 1
                         THEN TwinsFrom(keys[k], network_list, 1, 2)
                         ELSE <<>>])

\* a detector that files what it finds under suspicious_patterns
DetectEvilTwinKeeping ==
    /\ analysis.op = "none"
    /\ analysis' = [op |-> "detect_evil_twin", raised |-> FALSE,
                    result |-> detect_evil_twin(snapshot)]
    /\ analyzers' =
           [analyzers EXCEPT !.suspicious_patterns.evil_twin =
                                 @ \o detect_evil_twin(snapshot)]
    /\ UNCHANGED <<snapshot, previous, anFrame>>

\* a call of detect_evil_twin on the snapshot
DetectEvilTwin ==
    /\ analysis.op = "none"
    /\ analysis' = [op |-> "detect_evil_twin", raised |-> FALSE,
                    result |-> detect_evil_twin(snapshot)]
    /\ UNCHANGED <<snapshot, analyzers, previous, anFrame>>

\* access-point records around the 10 dBm limit, with empty and absent SSIDs
\* and an absent signal_strength
TwinPool ==
    {[bssid |-> "b1", ssid |-> <<"X">>, signal_strength |-> 0 - 40],
     [bssid |-> "b2", ssid |-> <<"X">>, signal_strength |-> 0 - 45],
     [bssid |-> "b3", ssid |-> <<"Y">>, signal_strength |-> 0 - 40],
     [bssid |-> "b3", ssid |-> <<"X">>, signal_strength |-> 0 - 49],
     [bssid |-> "b2", ssid |-> <<"X">>, signal_strength |-> 0 - 50],
     [bssid |-> "b1", ssid |-> <<>>, signal_strength |-> 0 - 40],
     [bssid |-> "b2", ssid |-> <<>>, signal_strength |-> 0 - 41],
     [bssid |-> "b1", signal_strength |-> 0 - 40],
     [bssid |-> "b2", signal_strength |-> 0 - 42],
     [bssid |-> "b1", ssid |-> <<"Y">>],
     [bssid |-> "b2", ssid |-> <<"Y">>, signal_strength |-> 0 - 95],
     [bssid |-> "b3", ssid |-> <<"Y">>, signal_strength |-> 0 - 90]}

TwinInit ==
    /\ ScannerInit
    /\ iface_type = "managed"
    /\ snapshot \in ListsUpTo(TwinPool, MaxNets)
    /\ AnalyzerInit

TwinNext == DetectEvilTwin

TwinSpec == TwinInit /\ [][TwinNext]_vars

\* the pairs of positions of the input that qualify
TwinPairs ==
    {p \in (DOMAIN snapshot) \X (DOMAIN snapshot) :
        /\ p[1] < p[2]
        /\ HasSsid(snapshot[p[1]]) /\ HasSsid(snapshot[p[2]])
        /\ snapshot[p[1]].ssid = snapshot[p[2]].ssid
        /\ snapshot[p[1]].bssid # snapshot[p[2]].bssid
        /\ LET d == Get(snapshot[p[1]], "signal_strength", 0 - 100)
                    - Get(snapshot[p[2]], "signal_strength", 0 - 100)
           IN  0 - 10 < d /\ d < 10}

\* C21: detect_evil_twin reports every pair of input records with the same
\* non-empty SSID, different BSSIDs and a signal difference below 10 exactly
\* once, each with severity 'high', and reports no other pair
C21_TwinsExhaustiveExact ==
    analysis.op = "detect_evil_twin" =>
        LET found == analysis.result
        IN  /\ ~analysis.raised
            /\ Len(found) = Cardinality(TwinPairs)
            /\ \A k \in DOMAIN found :
                  /\ found[k].severity = "high"
                  /\ \E p \in TwinPairs :
                        found[k].networks = <<snapshot[p[1]], snapshot[p[2]]>>
            /\ \A p \in TwinPairs :
                  Cardinality({k \in DOMAIN found : found[k].networks
                                   = <<snapshot[p[1]], snapshot[p[2]]>>})
                  = Cardinality({q \in TwinPairs :
                                   <<snapshot[q[1]], snapshot[q[2]]>>
                                   = <<snapshot[p[1]], snapshot[p[2]]>>})

\* three records under one SSID, every two of them a pair: all three reported
C21_Witness ==
    /\ analysis.op = "detect_evil_twin"
    /\ Len(snapshot) = 3
    /\ Cardinality(TwinPairs) = 3
    /\ Len(analysis.result) = 3

\* the orders in which a list of n records can be handed over
Perms(n) == {p \in [1..n -> 1..n] : \A i, j \in 1..n : p[i] = p[j] => i = j}

Permuted(nets, p) == [i \in DOMAIN nets |-> nets[p[i]]]

\* a finding without the order of its two records
TwinPair(f) ==
    [type |-> f.type, severity |-> f.severity, ssid |-> f.ssid,
     description |-> f.description,
     networks |-> {f.networks[1], f.networks[2]}]

\* how often each finding occurs in a list of findings
TwinBag(found) ==
    [f \in {TwinPair(found[k]) : k \in DOMAIN found} |->
        Cardinality({k \in DOMAIN found : TwinPair(found[k]) = f})]

\* C22: in whatever order the records are handed to detect_evil_twin, it
\* produces the same number of findings and the same finding for each pair
C22_TwinsOrderSymmetric ==
    analysis.op = "detect_evil_twin" =>
        \A p \in Perms(Len(snapshot)) :
            LET other == detect_evil_twin(Permuted(snapshot, p))
            IN  /\ Len(other) = Len(analysis.result)
                /\ TwinBag(other) = TwinBag(analysis.result)

\* a pair and a third record: handed over in another order, the one finding
\* lists its two records the other way round
C22_Witness ==
    /\ analysis.op = "detect_evil_twin"
    /\ Len(snapshot) = 3
    /\ Len(analysis.result) = 1
    /\ \E p \in Perms(3) :
          LET other == detect_evil_twin(Permuted(snapshot, p))
          IN  /\ Len(other) = 1
              /\ other[1].networks = <<analysis.result[1].networks[2],
                                       analysis.result[1].networks[1]>>

(***************************************************************************)
(* ThreatDetector.detect_rogue_ap (lines 56-99).                           *)
(***************************************************************************)
UpperCase == <<"A", "B", "C", "D", "E", "F", "G", "H", "I", "J", "K", "L", "M",
               "N", "O", "P", "Q", "R", "S", "T", "U", "V", "W", "X", "Y", "Z">>
LowerCase == <<"a", "b", "c", "d", "e", "f", "g", "h", "i", "j", "k", "l", "m",
               "n", "o", "p", "q", "r", "s", "t", "u", "v", "w", "x", "y", "z">>

\* a string left as it is written
AsWritten(s) == s

\* str.lower()
lower(s) ==
    [i \in DOMAIN s |->
        IF \E k \in DOMAIN UpperCase : UpperCase[k] = s[i]
           THEN LowerCase[CHOOSE k \in DOMAIN UpperCase : UpperCase[k] = s[i]]
           ELSE s[i]]

\* keyword in s
In(keyword, s) ==
    \E i \in 0..(Len(s) - Len(keyword)) :
        SubSeq(s, i + 1, i + Len(keyword)) = keyword

\* line 67 and line 78
vendor_keywords ==
    <<<<"u", "n", "k", "n", "o", "w", "n">>,
      <<"p", "r", "i", "v", "a", "t", "e">>,
      <<"r", "a", "n", "d", "o", "m">>>>
honeypot_names ==
    <<<<"f", "r", "e", "e", " ", "w", "i", "f", "i">>,
      <<"p", "u", "b", "l", "i", "c">>,
      <<"g", "u", "e", "s", "t">>,
      <<"o", "p", "e", "n">>,
      <<"i", "n", "t", "e", "r", "n", "e", "t">>>>

\* lines 61-63, 66-69, 72-74, 77-81: the signals that fire, in program order
RogueSignals(network) ==
    LET vendor == lower(Get(network, "vendor", <<>>))
        ssid == lower(Get(network, "ssid", <<>>))
    IN  (IF Get(network, "encryption", NoneStr) = "Open"
            THEN <<[points |-> 3, reason |-> "Open network detected"]>>
            ELSE <<>>)
        \o (IF \E k \in DOMAIN vendor_keywords : In(vendor_keywords[k], vendor)
               THEN <<[points |-> 2, reason |-> "Unusual vendor"]>> ELSE <<>>)
        \o (IF Get(network, "signal_strength", 0 - 100) > 0 - 30
               THEN <<[points |-> 1, reason |-> "Unusually strong signal"]>>
               ELSE <<>>)
        \o (IF \E k \in DOMAIN honeypot_names : In(honeypot_names[k], ssid)
               THEN <<[points |-> 2, reason |-> "Suspicious SSID pattern"]>>
               ELSE <<>>)

RECURSIVE Sum(_)
Sum(s) == IF s = <<>> THEN 0 ELSE Head(s) + Sum(Tail(s))

\* a detector that rates every finding 'high'
AlwaysHigh(suspicious_score) == "high"

\* line 86
RogueSeverity(suspicious_score) ==
    IF suspicious_score < 6 THEN "medium" ELSE "high"

\* lines 83-92 for one record: the findings it adds to rogue_aps
RogueFindings(network) ==
    LET fired == RogueSignals(network)
        suspicious_score == Sum([k \in DOMAIN fired |-> fired[k].points])
    IN  IF suspicious_score >= 4
           THEN <<[type |-> "rogue_ap",
                   severity |-> RogueSeverity(suspicious_score),
                   network |-> network,
                   score |-> suspicious_score,
                   reasons |-> [k \in DOMAIN fired |-> fired[k].reason],
                   description |-> <<"Potential rogue AP: ",
                                     Get(network, "ssid", <<"H", "i", "d", "d", "e", "n">>)>>]>>
           ELSE <<>>

detect_rogue_ap(nets) ==
    Concat([i \in DOMAIN nets |-> RogueFindings(nets[i])])

\* lines 66 and 77: None.lower() raises AttributeError
rogue_raises(nets) ==
    \E i \in DOMAIN nets :
        Get(nets[i], "vendor", <<>>) = None \/ Get(nets[i], "ssid", <<>>) = None

\* a call of detect_rogue_ap on the snapshot
DetectRogueAp ==
    /\ analysis.op = "none"
    /\ analysis' = [op |-> "detect_rogue_ap", raised |-> rogue_raises(snapshot),
                    result |-> IF rogue_raises(snapshot) THEN <<>>
                               ELSE detect_rogue_ap(snapshot)]
    /\ UNCHANGED <<snapshot, analyzers, previous, anFrame>>

UnknownCorp == <<"U", "n", "k", "n", "o", "w", "n", " ", "C", "o", "r", "p">>
FreeWiFi == <<"F", "r", "e", "e", " ", "W", "i", "F", "i">>

\* every combination of a fired and a silent signal, and records that miss
\* keys or spell the keywords in other cases or inside longer words
RoguePool ==
    {[bssid |-> "b1", encryption |-> enc, vendor |-> v, signal_strength |-> sig,
      ssid |-> s] :
        enc \in {"Open", "WPA2"},
        v \in {UnknownCorp, <<"C", "i", "s", "c", "o">>},
        sig \in {0 - 20, 0 - 30},
        s \in {FreeWiFi, <<"H", "o", "m", "e">>}}
    \cup
    {[bssid |-> "b2"],
     [bssid |-> "b2", encryption |-> "Open", ssid |-> <<"G", "U", "E", "S", "T">>],
     [bssid |-> "b2", encryption |-> "Open", signal_strength |-> 0 - 29],
     [bssid |-> "b2", encryption |-> "WEP", signal_strength |-> 0 - 29,
      vendor |-> <<"P", "R", "I", "V", "A", "T", "E">>],
     [bssid |-> "b2", encryption |-> "WPA2", signal_strength |-> 0 - 31,
      vendor |-> <<"x", "R", "a", "n", "d", "o", "m", "x">>,
      ssid |-> <<"O", "p", "e", "n", "N", "e", "t">>],
     [bssid |-> "b2", encryption |-> "open",
      ssid |-> <<"F", "r", "e", "e", "W", "i", "F", "i">>],
     [bssid |-> "b2", encryption |-> "Open", vendor |-> <<>>, ssid |-> <<>>],
     [bssid |-> "b2", encryption |-> "Open", signal_strength |-> 0 - 70,
      ssid |-> <<"t", "h", "e", " ", "I", "n", "t", "e", "r", "n", "e", "t">>,
      vendor |-> <<"p", "u", "b", "l", "i", "c">>]}

RogueInit ==
    /\ ScannerInit
    /\ iface_type = "managed"
    /\ snapshot \in ListsUpTo(RoguePool, MaxRogueNets)
    /\ AnalyzerInit

RogueNext == DetectRogueAp

RogueSpec == RogueInit /\ [][RogueNext]_vars

\* word, written in lower case, occurs in s in some mix of cases
AnyCase(word, s) ==
    \E i \in 0..(Len(s) - Len(word)) :
        \A k \in DOMAIN word :
            \/ s[i + k] = word[k]
            \/ \E u \in DOMAIN LowerCase :
                  LowerCase[u] = word[k] /\ UpperCase[u] = s[i + k]

\* the four signals of a record, as the scoring rule states them
OpenFires(n) == "encryption" \in DOMAIN n /\ n.encryption = "Open"
VendorFires(n) ==
    /\ "vendor" \in DOMAIN n
    /\ \E k \in DOMAIN vendor_keywords : AnyCase(vendor_keywords[k], n.vendor)
SignalFires(n) == "signal_strength" \in DOMAIN n /\ n.signal_strength > 0 - 30
SsidFires(n) ==
    /\ "ssid" \in DOMAIN n
    /\ \E k \in DOMAIN honeypot_names : AnyCase(honeypot_names[k], n.ssid)

RuleScore(n) ==
    (IF OpenFires(n) THEN 3 ELSE 0) + (IF VendorFires(n) THEN 2 ELSE 0)
    + (IF SignalFires(n) THEN 1 ELSE 0) + (IF SsidFires(n) THEN 2 ELSE 0)

RuleReasons(n) ==
    (IF OpenFires(n) THEN <<"Open network detected">> ELSE <<>>)
    \o (IF VendorFires(n) THEN <<"Unusual vendor">> ELSE <<>>)
    \o (IF SignalFires(n) THEN <<"Unusually strong signal">> ELSE <<>>)
    \o (IF SsidFires(n) THEN <<"Suspicious SSID pattern">> ELSE <<>>)

\* the positions of the input whose score reaches the threshold, in order
Flagged ==
    LET Reaches(i) == RuleScore(snapshot[i]) >= 4
    IN  SelectSeq([i \in DOMAIN snapshot |-> i], Reaches)

\* C23: detect_rogue_ap scores each record by itself as the sum of its fired
\* signals (Open 3, vendor keyword 2, signal above -30: 1, honeypot SSID 2),
\* reports exactly the records scoring 4 or more, 'medium' for 4 and 5 and
\* 'high' from 6, with the score and the reasons in the order encryption,
\* vendor, signal, SSID
C23_RogueScoring ==
    analysis.op = "detect_rogue_ap" =>
        LET found == analysis.result
        IN  /\ ~analysis.raised
            /\ Len(found) = Len(Flagged)
            /\ \A k \in DOMAIN found :
                  LET n == snapshot[Flagged[k]]
                  IN  /\ found[k].network = n
                      /\ found[k].score = RuleScore(n)
                      /\ found[k].severity =
                            (IF RuleScore(n) \in {4, 5} THEN "medium" ELSE "high")
                      /\ found[k].reasons = RuleReasons(n)

\* two records, one reported 'medium' with a score of 4 through keywords in
\* another case, the other below the threshold
C23_Witness ==
    /\ analysis.op = "detect_rogue_ap"
    /\ Len(snapshot) = 2
    /\ Len(analysis.result) = 1
    /\ analysis.result[1].severity = "medium"
    /\ analysis.result[1].score = 4
    /\ analysis.result[1].network = snapshot[2]
    /\ analysis.result[1].reasons = <<"Unusual vendor", "Suspicious SSID pattern">>
    /\ RuleScore(snapshot[1]) = 3

\* the record of the example, with whatever encryption
IsExample(n) ==
    /\ DOMAIN n = {"bssid", "encryption", "vendor", "signal_strength", "ssid"}
    /\ n.vendor = UnknownCorp
    /\ n.signal_strength = 0 - 20
    /\ n.ssid = FreeWiFi

\* the findings about the record at position i
FindingsAbout(i) ==
    LET About(f) == f.network = snapshot[i]
    IN  SelectSeq(analysis.result, About)

Occurrences(i) == Cardinality({j \in DOMAIN snapshot : snapshot[j] = snapshot[i]})

\* C24 as stated: the example record scores 8 and is reported 'high' with Open
\* encryption, and is not reported with any other encryption
C24_NonOpenNotReported ==
    analysis.op = "detect_rogue_ap" =>
        \A i \in DOMAIN snapshot : IsExample(snapshot[i]) =>
            IF snapshot[i].encryption = "Open"
               THEN /\ Len(FindingsAbout(i)) = Occurrences(i)
                    /\ \A k \in DOMAIN FindingsAbout(i) :
                          /\ FindingsAbout(i)[k].score = 8
                          /\ FindingsAbout(i)[k].severity = "high"
               ELSE FindingsAbout(i) = <<>>

\* C24: the example record (vendor 'Unknown Corp', signal -20, SSID
\* 'Free WiFi') scores 8 and is reported 'high' with Open encryption; with
\* any other encryption it scores 5 and is reported 'medium'
C24_NonOpenReportedMedium ==
    analysis.op = "detect_rogue_ap" =>
        \A i \in DOMAIN snapshot : IsExample(snapshot[i]) =>
            LET open == snapshot[i].encryption = "Open"
            IN  /\ Len(FindingsAbout(i)) = Occurrences(i)
                /\ \A k \in DOMAIN FindingsAbout(i) :
                      /\ FindingsAbout(i)[k].score = (IF open THEN 8 ELSE 5)
                      /\ FindingsAbout(i)[k].severity =
                            (IF open THEN "high" ELSE "medium")

\* the example record with WPA2 alone in the list: one finding, score 5
C24_Witness ==
    /\ analysis.op = "detect_rogue_ap"
    /\ Len(snapshot) = 1
    /\ IsExample(snapshot[1])
    /\ snapshot[1].encryption = "WPA2"
    /\ Len(analysis.result) = 1
    /\ analysis.result[1].score = 5
    /\ analysis.result[1].reasons =
          <<"Unusual vendor", "Unusually strong signal", "Suspicious SSID pattern">>

(***************************************************************************)
(* NetworkAnalytics.analyze_channel_utilization (lines 107-174).  A score  *)
(* is kept in tenths: 10 * len(nets) + total_signal / 10 is a multiple of  *)
(* 0.1, and the limits it is compared with (100, 20, 50) are whole.        *)
(***************************************************************************)
Digits == <<"0", "1", "2", "3", "4", "5", "6", "7", "8", "9">>

\* str() of a non-negative int
RECURSIVE str(_)
str(n) ==
    IF n < 10 THEN <<Digits[n + 1]>>
    ELSE Append(str(n \div 10), Digits[(n % 10) + 1])

\* int() of a string of digits
RECURSIVE int(_)
int(s) ==
    LET d == (CHOOSE k \in DOMAIN Digits : Digits[k] = s[Len(s)]) - 1
    IN  IF Len(s) = 1 THEN d ELSE 10 * int(SubSeq(s, 1, Len(s) - 1)) + d

\* a grouping that files a record without a channel under channel 0
AnyChannel(network) == TRUE

\* line 112: if channel  -- None and 0 are falsy
HasChannel(network) == Get(network, "channel", 0) # 0

\* the keys of channel_data in insertion order (lines 110-113)
RECURSIVE ChannelKeys(_)
ChannelKeys(nets) ==
    IF nets = <<>> THEN <<>>
    ELSE LET n == Len(nets)
             before == ChannelKeys(SubSeq(nets, 1, n - 1))
             last == nets[n]
         IN  IF HasChannel(last) /\ str(Get(last, "channel", 0)) \notin Range(before)
                THEN Append(before, str(Get(last, "channel", 0))) ELSE before

\* channel_data[channel] (lines 110-113)
ChannelNets(nets, channel) ==
    LET OnChannel(network) ==
            HasChannel(network) /\ str(Get(network, "channel", 0)) = channel
    IN  SelectSeq(nets, OnChannel)

\* a score without the cap of 100
Uncapped(a, b) == b

Min(a, b) == IF a < b THEN a ELSE b

\* lines 122-127: one entry of interference_map
Interference(channel_nets) ==
    LET total_signal ==
            Sum([k \in DOMAIN channel_nets |->
                    Abs(Get(channel_nets[k], "signal_strength", 0 - 100))])
    IN  [network_count |-> Len(channel_nets),
         total_signal_power |-> total_signal,
         interference_tenths |->
             Min(1000, (Len(channel_nets) * 100) + total_signal)]

\* sorted(interference_map.items(), key=score): stable, so equal scores keep
\* their insertion order (lines 146-147)
RECURSIVE SortedByScore(_, _)
SortedByScore(keys, interference_map) ==
    IF keys = <<>> THEN <<>>
    ELSE LET n == Len(keys)
             before == SortedByScore(SubSeq(keys, 1, n - 1), interference_map)
             score == interference_map[keys[n]].interference_tenths
             NotAbove(k) == interference_map[k].interference_tenths <= score
             Above(k) == interference_map[k].interference_tenths > score
         IN  SelectSeq(before, NotAbove) \o <<keys[n]>> \o SelectSeq(before, Above)

\* a list of the first five channels met, whatever their scores
optimal_unranked(keys, interference_map) ==
    LET top == SubSeq(keys, 1, Min(5, Len(keys)))
    IN  [k \in DOMAIN top |->
            LET data == interference_map[top[k]]
            IN  [channel |-> int(top[k]),
                 interference_tenths |-> data.interference_tenths,
                 network_count |-> data.network_count,
                 recommendation |->
                     IF data.interference_tenths < 200 THEN "excellent"
                     ELSE IF data.interference_tenths < 500 THEN "good"
                     ELSE "poor"]]

\* NetworkAnalytics._find_optimal_channels (lines 140-158)
find_optimal_channels(keys, interference_map) ==
    LET sorted_channels == SortedByScore(keys, interference_map)
        top == SubSeq(sorted_channels, 1, Min(5, Len(sorted_channels)))
    IN  [k \in DOMAIN top |->
            LET data == interference_map[top[k]]
            IN  [channel |-> int(top[k]),
                 interference_tenths |-> data.interference_tenths,
                 network_count |-> data.network_count,
                 recommendation |->
                     IF data.interference_tenths < 200 THEN "excellent"
                     ELSE IF data.interference_tenths < 500 THEN "good"
                     ELSE "poor"]]

\* a level taken from the busiest channel instead of the mean over the channels
RECURSIVE congestion_by_busiest(_)
congestion_by_busiest(utilization) ==
    IF DOMAIN utilization = {} THEN "none"
    ELSE LET k == CHOOSE k \in DOMAIN utilization : TRUE
             rest == [c \in DOMAIN utilization \ {k} |-> utilization[c]]
             Worse(a, b) ==
                 IF "severe" \in {a, b} THEN "severe"
                 ELSE IF "high" \in {a, b} THEN "high"
                 ELSE IF "moderate" \in {a, b} THEN "moderate" ELSE "low"
         IN  Worse(IF utilization[k] < 2 THEN "low"
                   ELSE IF utilization[k] < 5 THEN "moderate"
                   ELSE IF utilization[k] < 10 THEN "high" ELSE "severe",
                   IF rest = <<>> THEN "low" ELSE congestion_by_busiest(rest))

\* NetworkAnalytics._calculate_congestion_level (lines 160-174):
\* statistics.mean of whole numbers is their exact sum over their number
calculate_congestion_level(utilization) ==
    IF DOMAIN utilization = {} THEN "none"
    ELSE LET keys == DOMAIN utilization
             RECURSIVE Total(_)
             Total(S) == IF S = {} THEN 0
                         ELSE LET k == CHOOSE k \in S : TRUE
                              IN  utilization[k] + Total(S \ {k})
             total == Total(keys)
             size == Cardinality(keys)
         IN  IF total < 2 * size THEN "low"
             ELSE IF total < 5 * size THEN "moderate"
             ELSE IF total < 10 * size THEN "high"
             ELSE "severe"

\* NetworkAnalytics.analyze_channel_utilization (lines 107-138); channels is
\* the order of the keys of the two dicts
analyze_channel_utilization(nets) ==
    LET keys == ChannelKeys(nets)
        utilization ==
            [channel \in Range(keys) |-> Len(ChannelNets(nets, channel))]
        interference_map ==
            [channel \in Range(keys) |-> Interference(ChannelNets(nets, channel))]
    IN  [channels |-> keys,
         utilization |-> utilization,
         interference_map |-> interference_map,
         optimal_channels |-> find_optimal_channels(keys, interference_map),
         congestion_level |-> calculate_congestion_level(utilization)]

\* a call of analyze_channel_utilization on the snapshot
AnalyzeChannelUtilization ==
    /\ analysis.op = "none"
    /\ analysis' = [op |-> "analyze_channel_utilization", raised |-> FALSE,
                    result |-> analyze_channel_utilization(snapshot)]
    /\ UNCHANGED <<snapshot, analyzers, previous, anFrame>>

\* records on three channels, with the channel 0 of a beacon that carried no
\* channel (wifi_scanner.py:377), without a channel and without a signal
ChannelPool ==
    {[bssid |-> "b1", channel |-> 1, signal_strength |-> 0 - 110],
     [bssid |-> "b2", channel |-> 1],
     [bssid |-> "b3", channel |-> 6, signal_strength |-> 0 - 45],
     [bssid |-> "b1", channel |-> 0, signal_strength |-> 0 - 40],
     [bssid |-> "b2", signal_strength |-> 0 - 50],
     [bssid |-> "b3", channel |-> 11, signal_strength |-> 0 - 95]}

ChannelInit ==
    /\ ScannerInit
    /\ iface_type = "managed"
    /\ snapshot \in ListsUpTo(ChannelPool, MaxChannelNets)
    /\ AnalyzerInit

ChannelNext == AnalyzeChannelUtilization

ChannelSpec == ChannelInit /\ [][ChannelNext]_vars

\* the records of the input that carry the channel value c
RecordsOn(c) ==
    LET Carries(n) == "channel" \in DOMAIN n /\ n.channel = c
    IN  SelectSeq(snapshot, Carries)

\* the channel values carried by the records of the input
Occurring == {c \in 0..14 : RecordsOn(c) # <<>>}

RECURSIVE TotalCount(_, _)
TotalCount(utilization, S) ==
    IF S = {} THEN 0
    ELSE LET k == CHOOSE k \in S : TRUE
         IN  utilization[k] + TotalCount(utilization, S \ {k})

\* the entry the rule prescribes for the channel value c
RuleEntry(c) ==
    LET count == Len(RecordsOn(c))
        power == Sum([k \in DOMAIN RecordsOn(c) |->
                        IF "signal_strength" \in DOMAIN RecordsOn(c)[k]
                           THEN Abs(RecordsOn(c)[k].signal_strength) ELSE 100])
        tenths == (100 * count) + power
    IN  [network_count |-> count,
         interference_tenths |-> IF tenths > 1000 THEN 1000 ELSE tenths]

EntryFollowsRule(c) ==
    LET r == analysis.result
    IN  /\ str(c) \in DOMAIN r.interference_map
        /\ str(c) \in DOMAIN r.utilization
        /\ r.utilization[str(c)] = RuleEntry(c).network_count
        /\ r.interference_map[str(c)].network_count = RuleEntry(c).network_count
        /\ r.interference_map[str(c)].interference_tenths
              = RuleEntry(c).interference_tenths

\* C29 as stated: every channel value of the input has its entry, and the
\* per-channel counts add up to the number of input records
C29_CountsCoverInput ==
    analysis.op = "analyze_channel_utilization" =>
        /\ \A c \in Occurring : EntryFollowsRule(c)
        /\ TotalCount(analysis.result.utilization,
                      DOMAIN analysis.result.utilization) = Len(snapshot)

\* C29: every channel other than 0 that a record of the input carries has an
\* entry with network_count = the number of records on it and
\* interference_score = min(100, 10 x count + sum of |signal| / 10); records
\* with channel 0 or without a channel are in no entry, so the counts add up
\* to the number of records that carry a non-zero channel
C29_CountsCoverChannelled ==
    analysis.op = "analyze_channel_utilization" =>
        /\ ~analysis.raised
        /\ DOMAIN analysis.result.utilization = {str(c) : c \in Occurring \ {0}}
        /\ DOMAIN analysis.result.interference_map
              = DOMAIN analysis.result.utilization
        /\ \A c \in Occurring \ {0} : EntryFollowsRule(c)
        /\ TotalCount(analysis.result.utilization,
                      DOMAIN analysis.result.utilization)
              = Cardinality({i \in DOMAIN snapshot :
                               /\ "channel" \in DOMAIN snapshot[i]
                               /\ snapshot[i].channel # 0})

\* five records: four on channel 1 and one with channel 0, which is counted
\* nowhere
C29_Witness ==
    /\ analysis.op = "analyze_channel_utilization"
    /\ Len(snapshot) = 5
    /\ Occurring = {0, 1}
    /\ Len(RecordsOn(0)) = 1
    /\ DOMAIN analysis.result.utilization = {<<"1">>}
    /\ analysis.result.utilization[<<"1">>] = 4

\* a call of _calculate_congestion_level; the argument is a utilization map
CalculateCongestionLevel ==
    /\ analysis.op = "none"
    /\ analysis' = [op |-> "_calculate_congestion_level", raised |-> FALSE,
                    result |-> calculate_congestion_level(snapshot)]
    /\ UNCHANGED <<snapshot, analyzers, previous, anFrame>>

\* utilization maps over the channels 1, 6 and 11
UtilizationMaps ==
    UNION {[S -> 1..MaxPerChannel] : S \in SUBSET {str(1), str(6), str(11)}}

CongestionInit ==
    /\ ScannerInit
    /\ snapshot \in UtilizationMaps
    /\ AnalyzerInit

CongestionNext == CalculateCongestionLevel

CongestionSpec == CongestionInit /\ [][CongestionNext]_vars

\* C30: the congestion level follows the mean count per occupied channel
\* (total / number of occupied channels): below 2 'low', below 5 'moderate',
\* below 10 'high', else 'severe'; with no occupied channel 'none'; so
\* {1:1, 6:1, 11:1} is 'low' and {1:6, 6:6, 11:6} is 'high'
C30_CongestionByMean ==
    analysis.op = "_calculate_congestion_level" =>
        LET occupied == Cardinality(DOMAIN snapshot)
            total == TotalCount(snapshot, DOMAIN snapshot)
            level == analysis.result
        IN  /\ ~analysis.raised
            /\ level = "none" <=> occupied = 0
            /\ occupied > 0 =>
                  /\ level = "low" <=> total < 2 * occupied
                  /\ level = "moderate" <=>
                        (2 * occupied <= total /\ total < 5 * occupied)
                  /\ level = "high" <=>
                        (5 * occupied <= total /\ total < 10 * occupied)
                  /\ level = "severe" <=> 10 * occupied <= total
            /\ snapshot = [c \in {str(1), str(6), str(11)} |-> 1] => level = "low"
            /\ snapshot = [c \in {str(1), str(6), str(11)} |-> 6] => level = "high"

\* six networks on each of the channels 1, 6 and 11: 'high'
C30_Witness ==
    /\ analysis.op = "_calculate_congestion_level"
    /\ snapshot = [c \in {str(1), str(6), str(11)} |-> 6]
    /\ analysis.result = "high"

(***************************************************************************)
(* Python floats.  The security score is a sum of quotients like 2/3, that *)
(* no float holds exactly, and it is compared with whole limits, so the    *)
(* rounding of every operation is kept (IEEE 754 binary64: the exact       *)
(* result rounded to Mantissa significant binary digits, ties to even).    *)
(* A float is held exactly as a whole number of units of 2^-FracBits,      *)
(* written in Limbs digits of base 2^LimbBits, most significant first;     *)
(* this holds every float below 2^IntBits whose last digit is no finer     *)
(* than the unit, which the quotients count / total with total < 16 and    *)
(* their weighted sums are.                                                *)
(***************************************************************************)
Mantissa == 53
LimbBits == 14
Limbs == 5
FracBits == 60
IntBits == (Limbs * LimbBits) - FracBits

RECURSIVE Pow2(_)
Pow2(n) == IF n = 0 THEN 1 ELSE 2 * Pow2(n - 1)

Base == Pow2(LimbBits)

\* the whole number n as a float
FromInt(n) ==
    [k \in 1..Limbs |-> IF k = 1 THEN n * Pow2(LimbBits - IntBits) ELSE 0]

\* the whole part of a float
Floor(x) == x[1] \div Pow2(LimbBits - IntBits)

\* the binary digit of weight 2^p units
Bit(x, p) == (x[Limbs - (p \div LimbBits)] \div Pow2(p % LimbBits)) % 2

\* the number of binary digits from the leading 1 down to the unit
BitLength(x) ==
    IF \A k \in 1..Limbs : x[k] = 0 THEN 0
    ELSE LET top == CHOOSE k \in 1..Limbs :
                        x[k] # 0 /\ \A j \in 1..(k - 1) : x[j] = 0
             high == CHOOSE h \in 0..(LimbBits - 1) :
                         /\ x[top] \div Pow2(h) = 1
         IN  ((Limbs - top) * LimbBits) + high + 1

\* the digits of x + y from limb k up, with the carry from the limbs below
RECURSIVE PlusFrom(_, _, _, _)
PlusFrom(x, y, k, carry) ==
    IF k = 0 THEN <<>>
    ELSE LET s == x[k] + y[k] + carry
         IN  IF s < Base THEN Append(PlusFrom(x, y, k - 1, 0), s)
             ELSE Append(PlusFrom(x, y, k - 1, 1), s - Base)

\* the digits of x * w for a whole number w
RECURSIVE TimesFrom(_, _, _, _)
TimesFrom(x, w, k, carry) ==
    IF k = 0 THEN <<>>
    ELSE LET s == (x[k] * w) + carry
         IN  IF s < Base THEN Append(TimesFrom(x, w, k - 1, 0), s)
             ELSE Append(TimesFrom(x, w, k - 1, s \div Base), s % Base)

\* an exact result (its digits, and whether digits finer than the unit were
\* lost) rounded to the nearest float, ties to even
RoundToFloat(x, lost) ==
    LET s == BitLength(x) - Mantissa
    IN  IF s <= 0 THEN x
        ELSE LET below == lost \/ \E p \in 0..(s - 2) : Bit(x, p) = 1
                 kept == [k \in 1..Limbs |->
                            LET low == (Limbs - k) * LimbBits
                            IN  IF low >= s THEN x[k]
                                ELSE IF low + LimbBits <= s THEN 0
                                ELSE x[k] - (x[k] % Pow2(s - low))]
                 unit == [k \in 1..Limbs |->
                            IF k = Limbs - (s \div LimbBits)
                               THEN Pow2(s % LimbBits) ELSE 0]
             IN  IF Bit(x, s - 1) = 1 /\ (below \/ Bit(x, s) = 1)
                    THEN PlusFrom(kept, unit, Limbs, 0) ELSE kept

\* the digits of r / d after the first k limbs, for a remainder r < d
RECURSIVE QuotientFrom(_, _, _)
QuotientFrom(r, d, k) ==
    IF k > Limbs THEN <<>>
    ELSE IF r = 0 THEN [i \in 1..(Limbs + 1 - k) |-> 0]
    ELSE <<(r * Base) \div d>> \o QuotientFrom((r * Base) % d, d, k + 1)

RECURSIVE QuotientRest(_, _, _)
QuotientRest(r, d, k) ==
    IF k > Limbs \/ r = 0 THEN r ELSE QuotientRest((r * Base) % d, d, k + 1)

\* a / b of two whole numbers (true division), for a / b < 2^IntBits
FloatDiv(a, b) ==
    LET first == a * Pow2(LimbBits - IntBits)
        exact == <<first \div b>> \o QuotientFrom(first % b, b, 2)
    IN  RoundToFloat(exact, QuotientRest(first % b, b, 2) # 0)

\* x * w for a whole number w
FloatTimes(x, w) == RoundToFloat(TimesFrom(x, w, Limbs, 0), FALSE)

\* x + y
FloatPlus(x, y) == RoundToFloat(PlusFrom(x, y, Limbs, 0), FALSE)

\* x >= n for a whole number n
FloatGE(x, n) == Floor(x) >= n

\* round(x, 1), in tenths: the nearest tenth to the float's exact value, a tie
\* going to the even one
Round1(x) ==
    LET ten == TimesFrom(x, 10, Limbs, 0)
        whole == Floor(ten)
        half == Bit(ten, FracBits - 1) = 1
        more == \E p \in 0..(FracBits - 2) : Bit(ten, p) = 1
    IN  IF half /\ (more \/ whole % 2 = 1) THEN whole + 1 ELSE whole

(***************************************************************************)
(* NetworkAnalytics.analyze_security_posture (lines 176-226).              *)
(***************************************************************************)
\* line 182: net.get('encryption', 'Unknown')
EncryptionOf(network) == Get(network, "encryption", "Unknown")

\* the keys of encryption_counts in insertion order (line 182)
RECURSIVE EncryptionKeys(_)
EncryptionKeys(nets) ==
    IF nets = <<>> THEN <<>>
    ELSE LET n == Len(nets)
             before == EncryptionKeys(SubSeq(nets, 1, n - 1))
         IN  IF EncryptionOf(nets[n]) \notin Range(before)
                THEN Append(before, EncryptionOf(nets[n])) ELSE before

\* encryption_counts.get(encryption, 0)
EncryptionCount(nets, encryption) ==
    Cardinality({i \in DOMAIN nets : EncryptionOf(nets[i]) = encryption})

\* lines 187-193
Weight(encryption) ==
    CASE encryption = "WPA3" -> 100
      [] encryption = "WPA2" -> 80
      [] encryption = "WPA" -> 60
      [] encryption = "WEP" -> 20
      [] encryption = "Open" -> 0
      [] OTHER -> 50

\* lines 185-195: security_score after the first k keys of encryption_counts
RECURSIVE ScoreAfter(_, _, _)
ScoreAfter(nets, keys, k) ==
    IF k = 0 THEN FromInt(0)
    ELSE FloatPlus(ScoreAfter(nets, keys, k - 1),
                   FloatTimes(FloatDiv(EncryptionCount(nets, keys[k]), Len(nets)),
                              Weight(keys[k])))

\* NetworkAnalytics._get_security_level (lines 215-226)
get_security_level(score) ==
    IF FloatGE(score, 90) THEN "excellent"
    ELSE IF FloatGE(score, 70) THEN "good"
    ELSE IF FloatGE(score, 50) THEN "fair"
    ELSE IF FloatGE(score, 30) THEN "poor"
    ELSE "critical"

\* lines 198-204
SecurityRecommendations(nets) ==
    (IF EncryptionCount(nets, "Open") > 0
        THEN <<"Secure open networks with WPA2/WPA3">> ELSE <<>>)
    \o (IF EncryptionCount(nets, "WEP") > 0
           THEN <<"Upgrade WEP networks to WPA2/WPA3">> ELSE <<>>)
    \o (IF EncryptionCount(nets, "WPA") > 0
           THEN <<"Upgrade WPA networks to WPA2/WPA3">> ELSE <<>>)

\* NetworkAnalytics.analyze_security_posture; security_score is in tenths
analyze_security_posture(nets) ==
    IF Len(nets) = 0 THEN [total_networks |-> 0, security_score |-> 0]
    ELSE LET keys == EncryptionKeys(nets)
             security_score == ScoreAfter(nets, keys, Len(keys))
         IN  [total_networks |-> Len(nets),
              encryption_distribution |->
                  [encryption \in Range(keys) |-> EncryptionCount(nets, encryption)],
              security_score |-> Round1(security_score),
              security_level |-> get_security_level(security_score),
              recommendations |-> SecurityRecommendations(nets),
              vulnerable_networks |-> EncryptionCount(nets, "Open")
                                      + EncryptionCount(nets, "WEP")]

\* a call of analyze_security_posture on the snapshot
AnalyzeSecurityPosture ==
    /\ analysis.op = "none"
    /\ analysis' = [op |-> "analyze_security_posture", raised |-> FALSE,
                    result |-> analyze_security_posture(snapshot)]
    /\ UNCHANGED <<snapshot, analyzers, previous, anFrame>>

\* the encryption classes of the inputs: the five weighted ones and another
EncryptionClasses == <<"WPA3", "WPA2", "WPA", "WEP", "Open", "WPA2-Enterprise">>

\* the ways to give k classes counts that add up to at most budget
RECURSIVE CountVectors(_, _)
CountVectors(k, budget) ==
    IF k = 0 THEN {<<>>}
    ELSE UNION {{Append(v, c) : v \in CountVectors(k - 1, budget - c)} :
                  c \in 0..budget}

\* counts[k] records of class order[k], class after class
Runs(order, counts) ==
    Concat([k \in DOMAIN order |->
               [i \in 1..counts[k] |-> [bssid |-> "b1", encryption |-> order[k]]]])

Reverse(s) == [i \in DOMAIN s |-> s[Len(s) + 1 - i]]

\* every mix of the classes in up to MaxSecurityNets records, the classes
\* first seen in either order, and short lists in any order with records
\* that carry no encryption
SecurityInputs ==
    {Runs(EncryptionClasses, v) :
        v \in CountVectors(Len(EncryptionClasses), MaxSecurityNets)}
    \cup {Runs(Reverse(EncryptionClasses), v) :
            v \in CountVectors(Len(EncryptionClasses), MaxSecurityNets)}
    \cup ListsUpTo({[bssid |-> "b1", encryption |-> "WPA2"],
                    [bssid |-> "b1", encryption |-> "WEP"],
                    [bssid |-> "b1", encryption |-> "Open"],
                    [bssid |-> "b1"]}, MaxNets)

SecurityInit ==
    /\ ScannerInit
    /\ iface_type = "managed"
    /\ snapshot \in SecurityInputs
    /\ AnalyzerInit

SecurityNext == AnalyzeSecurityPosture

SecuritySpec == SecurityInit /\ [][SecurityNext]_vars

\* 10 x the sum over the classes of count x weight, and the total count: the
\* score of the rule is their quotient, in tenths
RuleTenfold ==
    10 * Sum([i \in DOMAIN snapshot |-> Weight(EncryptionOf(snapshot[i]))])

RuleLevel ==
    LET n == Len(snapshot)
    IN  IF RuleTenfold >= 900 * n THEN "excellent"
        ELSE IF RuleTenfold >= 700 * n THEN "good"
        ELSE IF RuleTenfold >= 500 * n THEN "fair"
        ELSE IF RuleTenfold >= 300 * n THEN "poor"
        ELSE "critical"

\* C28: the security score is the sum over the classes of (count / total) x
\* weight, reported to one decimal; the level is excellent from 90, good
\* from 70, fair from 50, poor from 30 and critical below; vulnerable_networks
\* is the number of Open plus WEP networks (8 WPA2 + 2 Open: 64, fair, 2)
C28_SecurityScoreAndLevel ==
    (analysis.op = "analyze_security_posture" /\ snapshot # <<>>) =>
        LET r == analysis.result
            n == Len(snapshot)
        IN  /\ 2 * n * r.security_score - n <= 2 * RuleTenfold
            /\ 2 * RuleTenfold <= 2 * n * r.security_score + n
            /\ r.security_level = RuleLevel
            /\ r.vulnerable_networks =
                  Cardinality({i \in DOMAIN snapshot :
                      /\ "encryption" \in DOMAIN snapshot[i]
                      /\ snapshot[i].encryption \in {"Open", "WEP"}})
            /\ snapshot = Runs(<<"WPA2", "Open">>, <<8, 2>>) =>
                  /\ r.security_score = 640
                  /\ r.security_level = "fair"
                  /\ r.vulnerable_networks = 2

(***************************************************************************)
(* SignalAnalyzer.analyze_signal_patterns (lines 247-307).  The standard   *)
(* deviation, reported for two and more signals, is left out.              *)
(***************************************************************************)
\* lines 251-254: the absolute signals of the records that carry one
signal_data(nets) ==
    LET Carries(network) == "signal_strength" \in DOMAIN network
        with == SelectSeq(nets, Carries)
    IN  [k \in DOMAIN with |-> Abs(with[k].signal_strength)]

\* sorted(data)
RECURSIVE Sorted(_)
Sorted(data) ==
    IF data = <<>> THEN <<>>
    ELSE LET n == Len(data)
             before == Sorted(SubSeq(data, 1, n - 1))
             NotAbove(v) == v <= data[n]
             Above(v) == v > data[n]
         IN  SelectSeq(before, NotAbove) \o <<data[n]>> \o SelectSeq(before, Above)

\* round(statistics.median(data), 1), in tenths
median_tenths(data) ==
    LET s == Sorted(data)
        n == Len(s)
    IN  IF n % 2 = 1 THEN 10 * s[(n + 1) \div 2]
        ELSE 5 * (s[n \div 2] + s[(n \div 2) + 1])

\* SignalAnalyzer._categorize_signals (lines 275-294)
categorize_signals(data) ==
    LET Count(Test(_)) == Cardinality({k \in DOMAIN data : Test(data[k])})
        Excellent(v) == v < 50
        Good(v) == v >= 50 /\ v < 70
        Fair(v) == v >= 70 /\ v < 85
        Poor(v) == v >= 85
    IN  [excellent |-> Count(Excellent), good |-> Count(Good),
         fair |-> Count(Fair), poor |-> Count(Poor)]

\* SignalAnalyzer._assess_signal_quality (lines 296-307): the mean of whole
\* numbers against whole limits
assess_signal_quality(data) ==
    IF Sum(data) < 50 * Len(data) THEN "excellent"
    ELSE IF Sum(data) < 70 * Len(data) THEN "good"
    ELSE IF Sum(data) < 85 * Len(data) THEN "fair"
    ELSE "poor"

\* SignalAnalyzer.analyze_signal_patterns; the two rounded values in tenths
analyze_signal_patterns(nets) ==
    LET data == signal_data(nets)
    IN  IF data = <<>> THEN [error |-> "No signal data available"]
        ELSE [average_signal |-> Round1(FloatDiv(Sum(data), Len(data))),
              median_signal |-> median_tenths(data),
              signal_range |-> [min |-> Sorted(data)[1],
                                max |-> Sorted(data)[Len(data)]],
              signal_distribution |-> categorize_signals(data),
              quality_assessment |-> assess_signal_quality(data)]

\* a call of analyze_signal_patterns on the snapshot
AnalyzeSignalPatterns ==
    /\ analysis.op = "none"
    /\ analysis' = [op |-> "analyze_signal_patterns", raised |-> FALSE,
                    result |-> analyze_signal_patterns(snapshot)]
    /\ UNCHANGED <<snapshot, analyzers, previous, anFrame>>

(***************************************************************************)
(* AdvancedWiFiAnalyzer.perform_comprehensive_analysis (lines 317-412).    *)
(* The records it is handed carry a bssid, whole signal strengths and      *)
(* channels, and strings, None or nothing for ssid and vendor; on these    *)
(* the one sub-analysis that can raise is detect_rogue_ap.                 *)
(***************************************************************************)
Severities(found) == [k \in DOMAIN found |-> found[k].severity]

\* a level that already is 'medium' with one medium finding
threat_level_eager(evil_twins, rogue_aps) ==
    LET threats == Severities(evil_twins) \o Severities(rogue_aps)
    IN  IF \E k \in DOMAIN threats : threats[k] = "high" THEN "high"
        ELSE IF \E k \in DOMAIN threats : threats[k] = "medium" THEN "medium"
        ELSE "none"

\* AdvancedWiFiAnalyzer._calculate_threat_level (lines 366-380)
calculate_threat_level(evil_twins, rogue_aps) ==
    LET threats == Severities(evil_twins) \o Severities(rogue_aps)
        high_threats == Cardinality({k \in DOMAIN threats : threats[k] = "high"})
        medium_threats ==
            Cardinality({k \in DOMAIN threats : threats[k] = "medium"})
    IN  IF high_threats > 0 THEN "high"
        ELSE IF medium_threats > 2 THEN "medium"
        ELSE IF medium_threats > 0 THEN "low"
        ELSE "none"

\* AdvancedWiFiAnalyzer._generate_recommendations (lines 382-412); {} is <<>>
generate_recommendations(report) ==
    LET security == report.security_analysis
        channel == report.channel_analysis
        threats == report.threat_analysis
        signal == report.signal_analysis
    IN  (IF Get(security, "vulnerable_networks", 0) > 0
            THEN <<<<"Secure ", security.vulnerable_networks,
                     " vulnerable networks">>>>
            ELSE <<>>)
        \o (IF Get(channel, "congestion_level", NoneStr) \in {"high", "severe"}
               THEN <<<<"Consider using less congested channels">>>>
                    \o (IF Get(channel, "optimal_channels", <<>>) # <<>>
                           THEN <<<<"Channel ", channel.optimal_channels[1].channel,
                                    " shows optimal performance">>>>
                           ELSE <<>>)
               ELSE <<>>)
        \o (IF Get(threats, "total_threats", 0) > 0
               THEN <<<<"Investigate detected security threats immediately">>>>
               ELSE <<>>)
        \o (IF Get(signal, "quality_assessment", NoneStr) = "poor"
               THEN <<<<"Consider improving AP placement for better coverage">>>>
               ELSE <<>>)

\* lines 322-331: analysis_results before the sub-analyses (timestamp, the
\* time of the call, is left out)
EmptyReport(nets) ==
    [total_networks |-> Len(nets),
     analysis_duration |-> 0,
     threat_analysis |-> <<>>,
     channel_analysis |-> <<>>,
     security_analysis |-> <<>>,
     signal_analysis |-> <<>>,
     recommendations |-> <<>>]

\* line 362: the measured duration, whatever it is
Measured == "round(time.time() - start_time, 2)"

\* lines 335-358: the try block when nothing raises
Analysed(nets) ==
    LET evil_twins == detect_evil_twin(nets)
        rogue_aps == detect_rogue_ap(nets)
        sections ==
            [EmptyReport(nets) EXCEPT
               !.threat_analysis =
                   [evil_twins |-> evil_twins,
                    rogue_aps |-> rogue_aps,
                    total_threats |-> Len(evil_twins) + Len(rogue_aps),
                    threat_level |-> calculate_threat_level(evil_twins, rogue_aps)],
               !.channel_analysis = analyze_channel_utilization(nets),
               !.security_analysis = analyze_security_posture(nets),
               !.signal_analysis = analyze_signal_patterns(nets)]
    IN  [sections EXCEPT !.recommendations = generate_recommendations(sections)]

\* lines 333-364: the sub-analyses run in one try block, so the first that
\* raises ends it
RunAnalyses(nets) ==
    IF rogue_raises(nets)
       THEN [k \in DOMAIN EmptyReport(nets) \cup {"error"} |->
               IF k = "error"
                  THEN "Analysis error: 'NoneType' object has no attribute 'lower'"
               ELSE IF k = "analysis_duration" THEN Measured
               ELSE EmptyReport(nets)[k]]
       ELSE [Analysed(nets) EXCEPT !.analysis_duration = Measured]

\* an analysis that runs the sub-analyses on whatever it is handed
perform_unguarded(nets) == RunAnalyses(nets)

perform_comprehensive_analysis(nets) ==
    IF nets = <<>> THEN [error |-> "No networks to analyze"]
    ELSE RunAnalyses(nets)

\* a call of perform_comprehensive_analysis on the snapshot
PerformComprehensiveAnalysis ==
    /\ analysis.op = "none"
    /\ analysis' = [op |-> "perform_comprehensive_analysis", raised |-> FALSE,
                    result |-> perform_comprehensive_analysis(snapshot)]
    /\ UNCHANGED <<snapshot, analyzers, previous, anFrame>>

\* records of a snapshot: unremarkable ones, three that detect_rogue_ap rates
\* medium and one it rates high, a twin, a hidden network as the scanner
\* first stores it, a row whose vendor is NULL and a record with a bssid only
ReportPool ==
    {[bssid |-> "b1", ssid |-> <<"H", "o", "m", "e">>, channel |-> 6,
      vendor |-> <<"C", "i", "s", "c", "o">>, signal_strength |-> 0 - 60,
      encryption |-> "WPA2"],
     [bssid |-> "b2", ssid |-> <<"H", "o", "m", "e">>, channel |-> 6,
      vendor |-> <<"C", "i", "s", "c", "o">>, signal_strength |-> 0 - 62,
      encryption |-> "WPA2"],
     [bssid |-> "b2", ssid |-> <<"G", "u", "e", "s", "t">>, channel |-> 1,
      vendor |-> <<"U", "n", "k", "n", "o", "w", "n">>, signal_strength |-> 0 - 60,
      encryption |-> "WPA2"],
     [bssid |-> "b3", ssid |-> <<"P", "u", "b", "l", "i", "c">>, channel |-> 11,
      vendor |-> <<"P", "r", "i", "v", "a", "t", "e">>, signal_strength |-> 0 - 75,
      encryption |-> "WPA3"],
     [bssid |-> "b1", ssid |-> <<"I", "n", "t", "e", "r", "n", "e", "t">>,
      vendor |-> <<"r", "a", "n", "d", "o", "m">>, signal_strength |-> 0 - 90,
      channel |-> 1, encryption |-> "WEP"],
     [bssid |-> "b2", ssid |-> FreeWiFi, vendor |-> UnknownCorp, channel |-> 6,
      signal_strength |-> 0 - 20, encryption |-> "Open"],
     [bssid |-> "b1", ssid |-> <<>>, channel |-> 0,
      vendor |-> <<"C", "i", "s", "c", "o">>, signal_strength |-> 0 - 100,
      encryption |-> "Open"],
     [bssid |-> "b3", ssid |-> <<"C", "a", "f", "e">>, channel |-> 11,
      vendor |-> None, signal_strength |-> 0 - 70, encryption |-> "WPA2"],
     [bssid |-> "b1"]}

ReportInit ==
    /\ ScannerInit
    /\ iface_type = "managed"
    /\ snapshot \in ListsUpTo(ReportPool, MaxReportNets)
    /\ AnalyzerInit

ReportNext ==
    \/ DetectEvilTwin
    \/ DetectRogueAp
    \/ AnalyzeChannelUtilization
    \/ AnalyzeSecurityPosture
    \/ AnalyzeSignalPatterns
    \/ PerformComprehensiveAnalysis

ReportSpec == ReportInit /\ [][ReportNext]_vars

\* a report of the comprehensive analysis whose sub-analyses all ran
Completed ==
    /\ analysis.op = "perform_comprehensive_analysis"
    /\ snapshot # <<>>
    /\ "error" \notin DOMAIN analysis.result

\* the number of findings of the report with the severity s
FindingsRated(s) ==
    LET threats == analysis.result.threat_analysis
    IN  Cardinality({k \in DOMAIN threats.evil_twins :
                        threats.evil_twins[k].severity = s})
        + Cardinality({k \in DOMAIN threats.rogue_aps :
                          threats.rogue_aps[k].severity = s})

\* C25: the threat level of the report is 'high' with at least one 'high'
\* finding, else 'medium' with more than 2 'medium' findings, else 'low' with
\* at least one, else 'none'; total_threats is the number of evil-twin plus
\* rogue-AP findings
C25_ThreatLevel ==
    Completed =>
        LET threats == analysis.result.threat_analysis
        IN  /\ threats.evil_twins = detect_evil_twin(snapshot)
            /\ threats.rogue_aps = detect_rogue_ap(snapshot)
            /\ threats.total_threats
                  = Len(threats.evil_twins) + Len(threats.rogue_aps)
            /\ threats.threat_level = "high" <=> FindingsRated("high") >= 1
            /\ threats.threat_level = "medium" <=>
                  (FindingsRated("high") = 0 /\ FindingsRated("medium") > 2)
            /\ threats.threat_level = "low" <=>
                  /\ FindingsRated("high") = 0
                  /\ FindingsRated("medium") \in {1, 2}
            /\ threats.threat_level = "none" <=>
                  (FindingsRated("high") = 0 /\ FindingsRated("medium") = 0)

\* two 'medium' findings and no 'high' one: the level is 'low'
C25_Witness ==
    /\ Completed
    /\ FindingsRated("medium") = 2
    /\ FindingsRated("high") = 0
    /\ analysis.result.threat_analysis.threat_level = "low"
    /\ analysis.result.threat_analysis.total_threats = 2

\* C26: when a sub-analysis raises during perform_comprehensive_analysis on
\* a non-empty input, the call does not raise and returns a report with an
\* error field and a measured analysis_duration that still contains the
\* results of the sub-analyses that did not fail
C26_PartialReportKeepsResults ==
    (/\ analysis.op = "perform_comprehensive_analysis"
     /\ snapshot # <<>>
     /\ rogue_raises(snapshot)) =>
        /\ ~analysis.raised
        /\ "error" \in DOMAIN analysis.result
        /\ analysis.result.analysis_duration = Measured
        /\ analysis.result.channel_analysis = analyze_channel_utilization(snapshot)
        /\ analysis.result.security_analysis = analyze_security_posture(snapshot)
        /\ analysis.result.signal_analysis = analyze_signal_patterns(snapshot)

\* C27: on an empty list no analyzer raises, and each returns its explicit
\* empty result: no findings, empty channel maps with congestion 'none',
\* total 0 and score 0, the 'no data' result, and the comprehensive result
\* that holds no section of a sub-analysis
C27_EmptyInput ==
    (snapshot = <<>> /\ analysis.op # "none") =>
        LET r == analysis.result
        IN  /\ ~analysis.raised
            /\ analysis.op \in {"detect_evil_twin", "detect_rogue_ap"} => r = <<>>
            /\ analysis.op = "analyze_channel_utilization" =>
                  /\ DOMAIN r.utilization = {}
                  /\ DOMAIN r.interference_map = {}
                  /\ r.optimal_channels = <<>>
                  /\ r.congestion_level = "none"
            /\ analysis.op = "analyze_security_posture" =>
                  r = [total_networks |-> 0, security_score |-> 0]
            /\ analysis.op = "analyze_signal_patterns" =>
                  r = [error |-> "No signal data available"]
            /\ analysis.op = "perform_comprehensive_analysis" =>
                  r = [error |-> "No networks to analyze"]

\* the comprehensive analysis called on the empty list
C27_Witness ==
    /\ snapshot = <<>>
    /\ analysis.op = "perform_comprehensive_analysis"
    /\ DOMAIN analysis.result = {"error"}

(***************************************************************************)
(* Repeated analyses of one snapshot.  The caller takes what the method    *)
(* returned (wifi_api.py:533, 569-570, 612, 648) and may call again.       *)
(***************************************************************************)
\* the method has returned; its result is with the caller
AnalysisReturns ==
    /\ analysis.op # "none"
    /\ previous' = analysis
    /\ analysis' = NoAnalysis
    /\ UNCHANGED <<snapshot, analyzers, anFrame>>

RepeatInit ==
    /\ ScannerInit
    /\ iface_type = "managed"
    /\ snapshot \in ListsUpTo(ReportPool, MaxRepeatNets)
    /\ AnalyzerInit

RepeatNext ==
    \/ ReportNext
    \/ AnalysisReturns

RepeatSpec == RepeatInit /\ [][RepeatNext]_vars

Incomplete(n) ==
    \/ Get(n, "ssid", None) = None
    \/ Get(n, "vendor", None) = None

\* C34: detect_rogue_ap does not fail on a list holding a record whose ssid
\* or vendor is absent or None; it scores that record with the signal of the
\* missing field not fired and reports the records of the list exactly as
\* the scoring rule rates each of them by itself.
C34_IncompleteRecordsScored ==
    (/\ analysis.op = "detect_rogue_ap"
     /\ \E i \in DOMAIN snapshot : Incomplete(snapshot[i]))
    => /\ ~analysis.raised
       /\ Len(analysis.result) = Len(Flagged)
       /\ \A k \in DOMAIN analysis.result :
             /\ analysis.result[k].network = snapshot[Flagged[k]]
             /\ analysis.result[k].score = RuleScore(snapshot[Flagged[k]])

(***************************************************************************)
(* The ranking of the channels: snapshots with up to MaxRankedChannels     *)
(* channels in use, loaded so that the scores fall on both sides of 20 and *)
(* of 50 and tie between channels.                                         *)
(***************************************************************************)
\* the channels, in the order in which the snapshot meets them
RankedChannels == <<6, 1, 11, 44, 36, 149, 165>>

\* the signals of the networks of one channel: none, and loads that score
\* 19.9, 20.0, 49.9 and 50.0
Loads ==
    {<<>>, <<0 - 99>>, <<0 - 100>>, <<0 - 66, 0 - 66, 0 - 67>>,
     <<0 - 66, 0 - 67, 0 - 67>>}

RankedInputs ==
    {Concat([c \in 1..MaxRankedChannels |->
                [k \in DOMAIN load[c] |->
                    [bssid |-> "b1", channel |-> RankedChannels[c],
                     signal_strength |-> load[c][k]]]]) :
        load \in [1..MaxRankedChannels -> Loads]}

RankedInit ==
    /\ ScannerInit
    /\ iface_type = "managed"
    /\ snapshot \in RankedInputs
    /\ AnalyzerInit

RankedNext == AnalyzeChannelUtilization

RankedSpec == RankedInit /\ [][RankedNext]_vars

\* the channel values carried by the records of the input
Carried ==
    {snapshot[i].channel :
        i \in {i \in DOMAIN snapshot : "channel" \in DOMAIN snapshot[i]}}

\* C35: optimal_channels has at most 5 entries, each for a channel that
\* occurs in the input and with that channel's interference score; the
\* scores do not decrease along the list, no channel left out scores lower
\* than a listed one, and an entry is tagged 'excellent' below 20, 'good'
\* below 50 and 'poor' otherwise.
C35_OptimalChannels ==
    analysis.op = "analyze_channel_utilization" =>
        LET optimal == analysis.result.optimal_channels
            scored == analysis.result.interference_map
            listed == {str(optimal[k].channel) : k \in DOMAIN optimal}
        IN  /\ Len(optimal) <= 5
            /\ \A k \in DOMAIN optimal :
                  /\ optimal[k].channel \in Carried
                  /\ str(optimal[k].channel) \in DOMAIN scored
                  /\ optimal[k].interference_tenths =
                         scored[str(optimal[k].channel)].interference_tenths
                  /\ optimal[k].recommendation =
                         (IF optimal[k].interference_tenths < 200 THEN "excellent"
                          ELSE IF optimal[k].interference_tenths < 500 THEN "good"
                          ELSE "poor")
            /\ \A k \in 1..(Len(optimal) - 1) :
                  optimal[k].interference_tenths <= optimal[k + 1].interference_tenths
            /\ \A c \in DOMAIN scored \ listed :
                  \A k \in DOMAIN optimal :
                      scored[c].interference_tenths >= optimal[k].interference_tenths

\* six channels in use: five listed, out of the order in which they were met
\* and with all three tags, and the sixth left out with a score of 50 too
C35_Witness ==
    /\ analysis.op = "analyze_channel_utilization"
    /\ Cardinality(DOMAIN analysis.result.interference_map) = 6
    /\ Len(analysis.result.optimal_channels) = 5
    /\ analysis.result.optimal_channels[1].channel = 149
    /\ analysis.result.optimal_channels[1].interference_tenths = 199
    /\ analysis.result.optimal_channels[1].recommendation = "excellent"
    /\ analysis.result.optimal_channels[2].interference_tenths = 200
    /\ analysis.result.optimal_channels[2].recommendation = "good"
    /\ analysis.result.optimal_channels[4].interference_tenths = 499
    /\ analysis.result.optimal_channels[4].recommendation = "good"
    /\ analysis.result.optimal_channels[5].interference_tenths = 500
    /\ analysis.result.optimal_channels[5].recommendation = "poor"
    /\ analysis.result.optimal_channels[5].channel = 6
    /\ analysis.result.interference_map[<<"3", "6">>].interference_tenths = 500
    /\ 36 \notin {analysis.result.optimal_channels[k].channel : k \in 1..5}

(***************************************************************************)
(* The records of a monitor scan handed to detect_rogue_ap: the values of  *)
(* the 'networks' dictionary of get_scan_results, in any order.            *)
(***************************************************************************)
\* the characters of the strings the scanner stores
Chars(s) ==
    CASE s = "" -> <<>>
      [] s = "x" -> <<"x">>
      [] s = "y" -> <<"y">>
      [] s = "Unknown" -> <<"U", "n", "k", "n", "o", "w", "n">>
      [] s = "Cisco Systems" ->
             <<"C", "i", "s", "c", "o", " ", "S", "y", "s", "t", "e", "m", "s">>
      [] s = "Apple Inc." -> <<"A", "p", "p", "l", "e", " ", "I", "n", "c", ".">>
      [] OTHER -> <<"?">>

\* **network of get_scan_results (wifi_scanner.py lines 577-583)
AsDict(network) == [network EXCEPT !.ssid = Chars(@), !.vendor = Chars(@)]

\* the scan results are read into the list that is analysed
ScanResultsTaken ==
    /\ snapshot = <<>>
    /\ analysis.op = "none"
    /\ DOMAIN networks # {}
    /\ \E order \in [1..Cardinality(DOMAIN networks) -> DOMAIN networks] :
          /\ \A i, j \in DOMAIN order : i # j => order[i] # order[j]
          /\ snapshot' = [i \in DOMAIN order |-> AsDict(networks[order[i]])]
    /\ UNCHANGED <<analysis, analyzers, previous, anFrame>>

BeaconNext ==
    \/ StartMonitorScan(<<6, 11>>, ToolsSucceed)
    \/ Return
    \/ \E t \in Threads : CaptureStep(t, Frames) \/ StoreStep(t)
    \/ ScanResultsTaken
    \/ DetectRogueAp

BeaconSpec == IngestInit /\ [][BeaconNext]_vars

\* C38: every record of the store has the encryption class 'Open', whatever
\* frames followed the beacon that created it; and when detect_rogue_ap is
\* given records of the store, it reports each of them whose vendor is
\* 'Unknown', with a score of 5 or more.
C38_BeaconRecordsOpenAndReported ==
    /\ \A b \in DOMAIN networks : networks[b].encryption = "Open"
    /\ analysis.op = "detect_rogue_ap" =>
          /\ ~analysis.raised
          /\ \A i \in DOMAIN snapshot :
                /\ snapshot[i].encryption = "Open"
                /\ snapshot[i].vendor = Chars("Unknown") =>
                      \E k \in DOMAIN analysis.result :
                          /\ analysis.result[k].network = snapshot[i]
                          /\ analysis.result[k].score >= 5

\* a record of an unlisted vendor that took a second beacon after the one
\* that created it was analysed and reported
C38_Witness ==
    /\ analysis.op = "detect_rogue_ap"
    /\ Len(snapshot) = 1
    /\ Len(analysis.result) = 1
    /\ analysis.result[1].network.bssid = "de:ad:be:ef:00:02"
    /\ analysis.result[1].network.vendor = Chars("Unknown")
    /\ analysis.result[1].network.beacon_count = 2
    /\ analysis.result[1].score = 5
    /\ analysis.result[1].severity = "medium"

(***************************************************************************)
(* The life of the worker.                                                 *)
(***************************************************************************)
\* C32: a worker thread ends only from the test at the top of its loop, and
\* only when that test finds the scanning flag cleared; a channel that
\* cannot be set, a capture window that fails and a frame whose handling
\* raises all leave it in the loop.
C32_WorkerEndsOnlyOnClearedFlag ==
    [][\A t \in Threads :
          (is_alive(t) /\ worker'[t].pc = "done")
              => (worker[t].pc = "top" /\ ~scanning)]_vars

\* a worker whose channel could not be set and whose frames left no record
\* has ended after the flag was cleared
C32_Witness ==
    \E t \in Threads :
        /\ worker[t].pc = "done"
        /\ ~scanning
        /\ packets_captured = MaxFrames
        /\ networks = <<>>
        /\ clients = <<>>
        /\ current_channel = 1

(***************************************************************************)
(* The frame counter.                                                      *)
(***************************************************************************)
\* a step in which the capture hands a frame to packet_handler
FrameHanded == nframes' = nframes + 1

\* a frame is handed and its handling is over with the step: it is of a kind
\* that no processor stores (no 802.11 layer, probe response,
\* authentication, deauthentication, another 802.11 frame)
CountedOnly ==
    /\ FrameHanded
    /\ \A t \in Threads : worker'[t].pc = worker[t].pc

RetryFrames ==
    {f \in Frames :
        /\ f.has_info
        /\ \/ f.kind = "beacon" /\ f.addr = "de:ad:be:ef:00:02" /\ f.ssid = "x"
           \/ f.kind = "probe_req" /\ f.addr # NoneStr /\ f.ssid = "x"
           \/ f.kind = "deauth"}

RetryNext ==
    \/ \E o \in ToolOutcomes : StartMonitorScan(<<6, 11>>, o)
    \/ StopBegin
    \/ StopJoin(FALSE)
    \/ StopRestore(ToolsSucceed)
    \/ Return
    \/ \E t \in Threads : CaptureStep(t, RetryFrames) \/ StoreStep(t)

RetrySpec == IngestInit /\ [][RetryNext]_vars

\* start_monitor_scan returns False although no scan is in progress: monitor
\* mode could not be entered
StartFailsOnMonitorMode ==
    /\ cpc = "idle"
    /\ ~scanning
    /\ ret'.op = "start_monitor_scan"
    /\ ~ret'.ok

\* C36: a start_monitor_scan that fails because monitor mode could not be
\* entered leaves the scanner not scanning, starts no worker and keeps
\* networks, clients, packets_captured and scan_start_time as the session
\* before left them.
C36_FailedStartKeepsResults ==
    [][StartFailsOnMonitorMode =>
          /\ ~scanning'
          /\ UNCHANGED <<scan_thread, worker, networks, clients,
                         packets_captured, scan_start_time>>]_vars

\* the start after a session that stored a network has failed on monitor
\* mode; the results of that session are still there
C36_Witness ==
    /\ cpc = "ret"
    /\ ret.op = "start_monitor_scan"
    /\ ~ret.ok
    /\ ~scanning
    /\ DOMAIN networks # {}
    /\ packets_captured > 0
    /\ scan_start_time # NoneInt

(***************************************************************************)
(* The timer of a monitor scan.                                            *)
(***************************************************************************)
\* the stop_scan_after_duration thread of session n wakes up and acts
TimerActs(n) == timer[n] = "sleeping" /\ timer'[n] # "sleeping"

\* C37: the timer of a scan stops that scan only.  When it acts it leaves
\* every other scanner instance as it was, it marks its session completed
\* only with its own scan no longer running, and it acts while no request
\* handler holds scanner_lock.
C37_TimerStopsOwnScanOnly ==
    [][\A n \in Instances :
          TimerActs(n) =>
              /\ \A i \in Instances \ {n} : inst'[i] = inst[i]
              /\ session'[n].status = "completed" => ~inst'[n].scanning
              /\ apc = "idle"]_vars

====
